---- MODULE Spec2Model ----
(***************************************************************************)
(* Model of MicrosoftOutlook.execute                                       *)
(* (packages/nodes-base/nodes/Microsoft/Outlook/MicrosoftOutlook.node.ts). *)
(*                                                                         *)
(* One behaviour is one call of execute.  The input items and the          *)
(* per-item node parameters are fixed by Init; the outcome of every        *)
(* awaited call (an HTTP request, a helper) is chosen by the environment   *)
(* in the action that issues it.  An action runs the synchronous code up   *)
(* to and including one awaited outbound call and its completion, and -    *)
(* when the call was the last one of the iteration - the code that ends    *)
(* the iteration (push of the records, or the catch block).  The awaited   *)
(* local helpers binaryToAttachments and prepareBinaryData issue no        *)
(* request of their own; they complete, or fail, inside the action that    *)
(* calls them.  getBinaryDataBuffer is called for a binary property that   *)
(* the handler has just found on the item, and returns its bytes.          *)
(*                                                                         *)
(* JavaScript values are modelled as follows: an object is a function      *)
(* whose domain is the set of its keys; an array is a sequence; a string   *)
(* that the code builds by interpolation is the sequence of its parts, so  *)
(* undefined is <<>> and the empty string is <<"">>; the item index i is   *)
(* 0-based as in the source, sequences are 1-based.                        *)
(***************************************************************************)
EXTENDS Integers, Sequences, FiniteSets, TLC

(* Largest number of input items of a batch. *)
MaxItems == 2

----------------------------------------------------------------------------
(* JavaScript object helpers *)

EmptyObj == [k \in {} |-> 0]

Has(obj, k) == k \in DOMAIN obj

Put(obj, k, v) == [x \in (DOMAIN obj) \cup {k} |-> IF x = k THEN v ELSE obj[x]]

(* Object.assign(target, source) *)
ObjectAssign(target, source) ==
    [x \in (DOMAIN target) \cup (DOMAIN source) |->
        IF x \in DOMAIN source THEN source[x] ELSE target[x]]

Min(a, b) == IF a < b THEN a ELSE b

Max(a, b) == IF a > b THEN a ELSE b

NoString == <<>>

(* !s for a string or undefined *)
Falsy(s) == s = NoString \/ s = <<"">>

----------------------------------------------------------------------------
(* The (resource, operation) pairs the node declares *)

DraftMessageOps == {"delete", "get", "update"}

Operations ==
    ({"draft", "message"} \X DraftMessageOps)
    \cup ({"draft"} \X {"create", "send"})
    \cup ({"message"} \X {"reply", "getMime", "getAll", "move", "send"})
    \cup ({"messageAttachment"} \X {"add", "download", "get", "getAll"})
    \cup ({"folder"} \X {"create", "delete", "get", "getAll", "getChildren", "update"})
    \cup ({"folderMessage"} \X {"getAll"})

InPlaceOps == {<<"message", "getMime">>, <<"messageAttachment", "download">>}

ListOps ==
    { <<"message", "getAll">>, <<"messageAttachment", "getAll">>,
      <<"folder", "getAll">>, <<"folder", "getChildren">>,
      <<"folderMessage", "getAll">> }

----------------------------------------------------------------------------
VARIABLES
    resource,        \* getNodeParameter('resource', 0)
    operation,       \* getNodeParameter('operation', 0)
    continueOnFail,  \* this.continueOnFail()
    length,          \* items.length at entry
    params,          \* params[i+1][name] = getNodeParameter(name, i)
    inputBinary,     \* binary map of each input item at entry (0 ref = none)
    items,           \* the items array: [json, binary] with binary a heap reference
    heap,            \* binary map objects by reference
    returnData,      \* the result accumulator
    qs,              \* the qs object of execute
    responseData,    \* the responseData variable of execute
    i,               \* loop index
    pc,              \* position inside the current iteration
    local,           \* block-scoped values live across an await
    requests,        \* every awaited outbound call so far, in issue order
    status,          \* "running", "returned" or "thrown"
    thrown,          \* the error execute rejected with
    output           \* what execute returned: [kind, data]

vars == << resource, operation, continueOnFail, length, params, inputBinary, items,
           heap, returnData, qs, responseData, i, pc, local, requests, status,
           thrown, output >>

input == << resource, operation, continueOnFail, length, params, inputBinary >>

----------------------------------------------------------------------------
(* Values *)

(* this.getNodeParameter(name, idx): the identifiers resolve to a value of *)
(* their own item, every other parameter is read from params.             *)
getNodeParameter(name, idx) ==
    IF name \in {"messageId", "attachmentId", "folderId"}
    THEN << name, ToString(idx) >>
    ELSE params[idx + 1][name]

(* additionalFields.key as a condition: the optional fields that the   *)
(* handlers test this way are absent or hold a non-empty value.         *)
Truthy(obj, k) == Has(obj, k)

SuccessJson == [kind |-> "object", success |-> TRUE]

ErrorJson(message) == [kind |-> "object", error |-> message]

(* The body of a successful response for item idx: one object. *)
ResponseObject(idx) == [kind |-> "object", id |-> << "response", ToString(idx) >>]

(* An array of k records answered for item idx. *)
ResponseArray(idx, k) ==
    [kind |-> "array",
     value |-> [j \in 1..k |->
                  [kind |-> "object", id |-> << "record", ToString(idx), ToString(j) >>]]]

(* Numbers of records a list request may answer with. *)
RespCounts == {0, 2}

(* The error a failed request rejects with. *)
ApiError == [name |-> "NodeApiError", message |-> << "The service returned an error" >>]

(* The error a failed local helper rejects with. *)
HelperError == [name |-> "Error", message |-> << "Binary data could not be processed" >>]

NoError == [name |-> "none", message |-> NoString]

(* this.helpers.returnJsonArray(data) *)
returnJsonArray(data) ==
    IF data.kind = "array"
    THEN [j \in DOMAIN data.value |-> [json |-> data.value[j]]]
    ELSE << [json |-> data] >>

(* this.helpers.constructExecutionMetaData(records, { itemData: { item: idx } }) *)
constructExecutionMetaData(records, idx) ==
    [j \in DOMAIN records |-> [json |-> records[j].json, pairedItem |-> [item |-> idx]]]

(* One awaited outbound call: what was handed to it, whether it resolved   *)
(* (ok) and, where the handler reads it, what it resolved with.            *)
Call(idx, fn, method, path, body, query, ok) ==
    [item |-> idx, fn |-> fn, method |-> method, path |-> path, body |-> body,
     qs |-> query, headers |-> EmptyObj, ok |-> ok, response |-> EmptyObj]

----------------------------------------------------------------------------
(* The two ways an iteration of a result-accumulation loop ends *)

(* Variant of the end of the try block that puts the new records in front *)
PushFrontAndContinue(data) ==
    /\ returnData' = constructExecutionMetaData(returnJsonArray(data), i) \o returnData
    /\ i' = i + 1
    /\ pc' = "loop"
    /\ UNCHANGED << status, thrown, output >>

(* returnData.push(...executionData) at the end of the try block *)
PushAndContinue(data) ==
    /\ returnData' = returnData \o constructExecutionMetaData(returnJsonArray(data), i)
    /\ i' = i + 1
    /\ pc' = "loop"
    /\ UNCHANGED << status, thrown, output >>

(* Variant of the catch block that records a failure and tries the item *)
(* again                                                                 *)
CatchBlockTriesAgain(error) ==
    IF continueOnFail
    THEN /\ returnData' =
                returnData \o constructExecutionMetaData(
                                  returnJsonArray(ErrorJson(error.message)), i)
         /\ pc' = "loop"
         /\ UNCHANGED << i, status, thrown, output >>
    ELSE /\ status' = "thrown"
         /\ thrown' = error
         /\ pc' = "done"
         /\ UNCHANGED << returnData, i, output >>

(* Variant of the catch block that isolates a failure without recording it *)
CatchBlockNoRecord(error) ==
    IF continueOnFail
    THEN /\ i' = i + 1
         /\ pc' = "loop"
         /\ UNCHANGED << returnData, status, thrown, output >>
    ELSE /\ status' = "thrown"
         /\ thrown' = error
         /\ pc' = "done"
         /\ UNCHANGED << returnData, i, output >>

(* Variant of the catch block that isolates a failure in either mode *)
CatchBlockAlwaysContinues(error) ==
    /\ returnData' =
           returnData \o constructExecutionMetaData(
                             returnJsonArray(ErrorJson(error.message)), i)
    /\ i' = i + 1
    /\ pc' = "loop"
    /\ UNCHANGED << status, thrown, output >>

(* catch (error) { if (this.continueOnFail()) { push error; continue } throw error } *)
CatchBlock(error) ==
    IF continueOnFail
    THEN /\ returnData' =
                returnData \o constructExecutionMetaData(
                                  returnJsonArray(ErrorJson(error.message)), i)
         /\ i' = i + 1
         /\ pc' = "loop"
         /\ UNCHANGED << status, thrown, output >>
    ELSE /\ status' = "thrown"
         /\ thrown' = error
         /\ pc' = "done"
         /\ UNCHANGED << returnData, i, output >>

(* return [returnData] inside a handler *)
ReturnEarly(data) ==
    /\ returnData' = returnData \o constructExecutionMetaData(returnJsonArray(data), i)
    /\ status' = "returned"
    /\ output' = [kind |-> "returnData", data |-> returnData']
    /\ pc' = "done"
    /\ UNCHANGED << i, thrown >>

InLoop(res, op) ==
    /\ status = "running"
    /\ pc = "loop"
    /\ resource \in res
    /\ operation = op
    /\ i < length

AtAwait(res, op, label) ==
    /\ status = "running"
    /\ pc = label
    /\ resource \in res
    /\ operation = op

----------------------------------------------------------------------------
(* draft / message : delete, get, update *)

DraftMessageDelete ==
    /\ InLoop({"draft", "message"}, "delete")
    /\ LET messageId == getNodeParameter("messageId", i) IN
       \E ok \in BOOLEAN :
          /\ requests' = Append(requests,
                Call(i, "microsoftApiRequest", "DELETE", << "/messages/" >> \o messageId,
                     EmptyObj, EmptyObj, ok))
          /\ IF ok
             THEN /\ responseData' = EmptyObj
                  /\ PushAndContinue(SuccessJson)
             ELSE /\ UNCHANGED responseData
                  /\ CatchBlock(ApiError)
    /\ UNCHANGED << input, items, heap, qs, local >>

(* qs after the two conditional assignments of a get / getAll handler *)
SelectAndFilter(query, additionalFields) ==
    LET q1 == IF Truthy(additionalFields, "fields")
              THEN Put(query, "$select", additionalFields["fields"])
              ELSE query
    IN  IF Truthy(additionalFields, "filter")
        THEN Put(q1, "$filter", additionalFields["filter"])
        ELSE q1

DraftMessageGet ==
    /\ InLoop({"draft", "message"}, "get")
    /\ LET messageId == getNodeParameter("messageId", i)
           additionalFields == getNodeParameter("additionalFields", i)
           query == SelectAndFilter(qs, additionalFields)
       IN
       /\ qs' = query
       /\ \E ok \in BOOLEAN :
          /\ requests' = Append(requests,
                Call(i, "microsoftApiRequest", "GET", << "/messages/" >> \o messageId,
                     EmptyObj, query, ok))
          /\ IF ok
             THEN /\ responseData' = ResponseObject(i)
                  /\ IF Truthy(additionalFields, "dataPropertyAttachmentsPrefixName")
                     THEN /\ pc' = "downloadAttachments"
                          /\ UNCHANGED << returnData, i, status, thrown, output >>
                     ELSE PushAndContinue(ResponseObject(i))
             ELSE /\ UNCHANGED responseData
                  /\ CatchBlock(ApiError)
    /\ UNCHANGED << input, items, heap, local >>

(* downloadAttachments(messages, prefix): one record per message *)
downloadAttachments(messages, prefix) ==
    IF messages.kind = "array"
    THEN [kind |-> "array",
          value |-> [j \in DOMAIN messages.value |-> Put(messages.value[j], "binaryPrefix", prefix)]]
    ELSE [kind |-> "array", value |-> << Put(messages, "binaryPrefix", prefix) >>]

(* Variant of the attachment download of get that goes on to the next item *)
DraftMessageGetAttachmentsContinues ==
    /\ AtAwait({"draft", "message"}, "get", "downloadAttachments")
    /\ LET additionalFields == getNodeParameter("additionalFields", i)
           prefix == additionalFields["dataPropertyAttachmentsPrefixName"]
       IN
       \E ok \in BOOLEAN :
          /\ requests' = Append(requests,
                Call(i, "downloadAttachments", "GET", << "/messages/" >> \o responseData.id,
                     EmptyObj, EmptyObj, ok))
          /\ IF ok
             THEN PushAndContinue(downloadAttachments(responseData, prefix))
             ELSE CatchBlock(ApiError)
    /\ UNCHANGED << input, items, heap, qs, responseData, local >>

DraftMessageGetAttachments ==
    /\ AtAwait({"draft", "message"}, "get", "downloadAttachments")
    /\ LET additionalFields == getNodeParameter("additionalFields", i)
           prefix == additionalFields["dataPropertyAttachmentsPrefixName"]
       IN
       \E ok \in BOOLEAN :
          /\ requests' = Append(requests,
                Call(i, "downloadAttachments", "GET", << "/messages/" >> \o responseData.id,
                     EmptyObj, EmptyObj, ok))
          /\ IF ok
             THEN ReturnEarly(downloadAttachments(responseData, prefix))
             ELSE CatchBlock(ApiError)
    /\ UNCHANGED << input, items, heap, qs, responseData, local >>

DraftMessageUpdate ==
    /\ InLoop({"draft", "message"}, "update")
    /\ LET messageId == getNodeParameter("messageId", i)
           updateFields == getNodeParameter("updateFields", i)
       IN
       \E ok \in BOOLEAN :
          /\ requests' = Append(requests,
                Call(i, "microsoftApiRequest", "PATCH", << "/messages/" >> \o messageId,
                     updateFields, EmptyObj, ok))
          /\ IF ok
             THEN /\ responseData' = ResponseObject(i)
                  /\ PushAndContinue(ResponseObject(i))
             ELSE /\ UNCHANGED responseData
                  /\ CatchBlock(ApiError)
    /\ UNCHANGED << input, items, heap, qs, local >>

----------------------------------------------------------------------------
(* draft : create, send *)

(* binaryToAttachments(attachments, items, i): one fileAttachment per entry *)
binaryToAttachments(attachments) ==
    [j \in DOMAIN attachments |->
        [odataType |-> "#microsoft.graph.fileAttachment", binaryPropertyName |-> attachments[j]]]

DraftCreate ==
    /\ InLoop({"draft"}, "create")
    /\ LET additionalFields == getNodeParameter("additionalFields", i)
           body == [subject |-> getNodeParameter("subject", i),
                    attachments |-> IF Truthy(additionalFields, "attachments")
                                    THEN binaryToAttachments(additionalFields["attachments"])
                                    ELSE << >>]
       IN
       \E helperOk \in BOOLEAN, ok \in BOOLEAN :
          IF Truthy(additionalFields, "attachments") /\ ~helperOk
          THEN /\ CatchBlock(HelperError)
               /\ UNCHANGED << requests, responseData >>
          ELSE /\ requests' = Append(requests,
                     Call(i, "microsoftApiRequest", "POST", << "/messages" >>, body, EmptyObj, ok))
               /\ IF ok
                  THEN /\ responseData' = ResponseObject(i)
                       /\ PushAndContinue(ResponseObject(i))
                  ELSE /\ UNCHANGED responseData
                       /\ CatchBlock(ApiError)
    /\ UNCHANGED << input, items, heap, qs, local >>

(* recipients.split(',').filter((email) => !!email) *)
SplitRecipients(recipients) == SelectSeq(recipients, LAMBDA email : email # "")

DraftSendRecipients ==
    /\ InLoop({"draft"}, "send")
    /\ LET messageId == getNodeParameter("messageId", i)
           additionalFields == getNodeParameter("additionalFields", i)
       IN
       /\ Truthy(additionalFields, "recipients")
       /\ Len(SplitRecipients(additionalFields["recipients"])) # 0
       /\ \E ok \in BOOLEAN :
          /\ requests' = Append(requests,
                Call(i, "microsoftApiRequest", "PATCH", << "/messages/" >> \o messageId,
                     [toRecipients |-> SplitRecipients(additionalFields["recipients"])],
                     EmptyObj, ok))
          /\ IF ok
             THEN /\ pc' = "send"
                  /\ UNCHANGED << returnData, i, status, thrown, output >>
             ELSE CatchBlock(ApiError)
    /\ UNCHANGED << input, items, heap, qs, responseData, local >>

DraftSend ==
    /\ status = "running"
    /\ resource = "draft"
    /\ operation = "send"
    /\ \/ pc = "send"
       \/ /\ pc = "loop"
          /\ i < length
          /\ LET additionalFields == getNodeParameter("additionalFields", i) IN
             ~ ( /\ Truthy(additionalFields, "recipients")
                 /\ Len(SplitRecipients(additionalFields["recipients"])) # 0 )
    /\ LET messageId == getNodeParameter("messageId", i) IN
       \E ok \in BOOLEAN :
          /\ requests' = Append(requests,
                Call(i, "microsoftApiRequest", "POST",
                     << "/messages/" >> \o messageId \o << "/send" >>, EmptyObj, EmptyObj, ok))
          /\ IF ok
             THEN /\ responseData' = EmptyObj
                  /\ PushAndContinue(SuccessJson)
             ELSE /\ UNCHANGED responseData
                  /\ CatchBlock(ApiError)
    /\ UNCHANGED << input, items, heap, qs, local >>

----------------------------------------------------------------------------
(* message : reply *)

(* The code that follows the last attachment POST of a reply: the send      *)
(* request is the next await when send is set, else the record is pushed.   *)
(* Variant of the end of a reply that sends the reply in every case *)
ReplyAlwaysSends(send) ==
    /\ pc' = "send"
    /\ UNCHANGED << returnData, i, status, thrown, output >>

ReplyAfterAttachments(send) ==
    IF send
    THEN /\ pc' = "send"
         /\ UNCHANGED << returnData, i, status, thrown, output >>
    ELSE PushAndContinue(responseData')

MessageReply ==
    /\ InLoop({"message"}, "reply")
    /\ LET messageId == getNodeParameter("messageId", i)
           replyType == getNodeParameter("replyType", i)
           comment == getNodeParameter("comment", i)
           send == getNodeParameter("send", i)
           additionalFields == getNodeParameter("additionalFields", i)
           action == IF replyType = "replyAll" THEN "/createReplyAll" ELSE "/createReply"
           body == IF replyType = "replyAll"
                   THEN [comment |-> comment]
                   ELSE [comment |-> comment, message |-> EmptyObj]
       IN
       \E ok \in BOOLEAN :
          /\ requests' = Append(requests,
                Call(i, "microsoftApiRequest", "POST",
                     << "/messages/" >> \o messageId \o << action >>, body, EmptyObj, ok))
          /\ IF ok
             THEN /\ responseData' = ResponseObject(i)
                  /\ IF Truthy(additionalFields, "attachments")
                     THEN /\ pc' = "attachments"
                          /\ local' = [posted |-> 0]
                          /\ UNCHANGED << returnData, i, status, thrown, output >>
                     ELSE /\ ReplyAfterAttachments(send)
                          /\ UNCHANGED local
             ELSE /\ UNCHANGED << responseData, local >>
                  /\ CatchBlock(ApiError)
    /\ UNCHANGED << input, items, heap, qs >>

MessageReplyAttachments ==
    /\ AtAwait({"message"}, "reply", "attachments")
    /\ LET send == getNodeParameter("send", i)
           additionalFields == getNodeParameter("additionalFields", i)
           data == binaryToAttachments(additionalFields["attachments"])
       IN
       \E helperOk \in BOOLEAN, ok \in BOOLEAN :
          IF local.posted = 0 /\ ~helperOk
          THEN /\ CatchBlock(HelperError)
               /\ local' = EmptyObj
               /\ UNCHANGED << requests, responseData >>
          ELSE IF Len(data) = 0
          THEN /\ UNCHANGED << requests, responseData >>
               /\ ReplyAfterAttachments(send)
               /\ local' = EmptyObj
          ELSE /\ requests' = Append(requests,
                     Call(i, "microsoftApiRequest", "POST",
                          << "/messages/" >> \o responseData.id \o << "/attachments" >>,
                          data[local.posted + 1], EmptyObj, ok))
               /\ UNCHANGED responseData
               /\ IF ~ok
                  THEN /\ CatchBlock(ApiError)
                       /\ local' = EmptyObj
                  ELSE IF local.posted + 1 < Len(data)
                  THEN /\ local' = [posted |-> local.posted + 1]
                       /\ UNCHANGED << returnData, i, pc, status, thrown, output >>
                  ELSE /\ ReplyAfterAttachments(send)
                       /\ local' = EmptyObj
    /\ UNCHANGED << input, items, heap, qs >>

MessageReplySend ==
    /\ AtAwait({"message"}, "reply", "send")
    /\ \E ok \in BOOLEAN :
          /\ requests' = Append(requests,
                Call(i, "microsoftApiRequest", "POST",
                     << "/messages/" >> \o responseData.id \o << "/send" >>,
                     EmptyObj, EmptyObj, ok))
          /\ IF ok
             THEN PushAndContinue(responseData)
             ELSE CatchBlock(ApiError)
    /\ UNCHANGED << input, items, heap, qs, responseData, local >>

----------------------------------------------------------------------------
(* The in-place operations: message getMime, messageAttachment download *)

(* Heap reference of the binary map that newItem of item idx gets. *)
NewRef(idx) == length + idx + 1

(* 0 stands for items[i].binary === undefined *)
UndefinedRef == 0

(* this.helpers.prepareBinaryData(data, fileName, mimeType) *)
prepareBinaryData(data, fileName, mimeType) ==
    [fileName |-> fileName, mimeType |-> mimeType, size |-> data.length]

(* Buffer.from(response.body, 'utf8') *)
BufferFrom(body) == [length |-> body.length]

(* The raw body answered for item idx. *)
ResponseBody(idx) == [length |-> 10 + idx]

(* Variant of the new item's binary map that starts empty and stays so *)
HeapWithNewItemEmpty(h, its, idx) == [h EXCEPT ![NewRef(idx)] = EmptyObj]

(* newItem = { json: items[i].json, binary: {} }; Object.assign of the old *)
(* map when there is one; items[i] = newItem.  Gives the heap.             *)
HeapWithNewItem(h, its, idx) ==
    [h EXCEPT ![NewRef(idx)] =
        IF its[idx + 1].binary # UndefinedRef
        THEN ObjectAssign(EmptyObj, h[its[idx + 1].binary])
        ELSE EmptyObj]

ItemsWithNewItem(its, idx) ==
    [its EXCEPT ![idx + 1] = [json |-> its[idx + 1].json, binary |-> NewRef(idx)]]

(* Variant of the in-place catch block that leaves the item's JSON as it is *)
CatchInPlaceKeepsJson(error, its) ==
    IF continueOnFail
    THEN /\ items' = its
         /\ i' = i + 1
         /\ pc' = "loop"
         /\ UNCHANGED << status, thrown, output >>
    ELSE /\ items' = its
         /\ status' = "thrown"
         /\ thrown' = error
         /\ pc' = "done"
         /\ UNCHANGED << i, output >>

(* catch (error) { if (this.continueOnFail()) { items[i].json = { error }; continue } throw } *)
CatchInPlace(error, its) ==
    IF continueOnFail
    THEN /\ items' = [its EXCEPT ![i + 1].json = ErrorJson(error.message)]
         /\ i' = i + 1
         /\ pc' = "loop"
         /\ UNCHANGED << status, thrown, output >>
    ELSE /\ items' = its
         /\ status' = "thrown"
         /\ thrown' = error
         /\ pc' = "done"
         /\ UNCHANGED << i, output >>

(* Lines from `const newItem` to the end of the try block, for a response  *)
(* that arrived: replace the item, then attach the prepared binary data.   *)
AttachBinary(propertyName, fileName, mimeType, helperOk) ==
    LET its == ItemsWithNewItem(items, i)
        h == HeapWithNewItem(heap, items, i)
        data == BufferFrom(ResponseBody(i))
    IN
    IF helperOk
    THEN /\ items' = its
         /\ heap' = [h EXCEPT ![its[i + 1].binary] =
                        Put(@, propertyName, prepareBinaryData(data, fileName, mimeType))]
         /\ i' = i + 1
         /\ pc' = "loop"
         /\ UNCHANGED << status, thrown, output >>
    ELSE /\ heap' = h
         /\ CatchInPlace(HelperError, its)

(* Content types a raw response may declare; NoString is no header. *)
ContentTypes == { NoString, << "message/rfc822" >> }

MessageGetMime ==
    /\ InLoop({"message"}, "getMime")
    /\ LET messageId == getNodeParameter("messageId", i)
           dataPropertyNameDownload == getNodeParameter("binaryPropertyName", i)
       IN
       \E ok \in BOOLEAN, helperOk \in BOOLEAN, contentType \in ContentTypes :
          /\ requests' = Append(requests,
                Call(i, "microsoftApiRequest", "GET",
                     << "/messages/" >> \o messageId \o << "/$value" >>,
                     EmptyObj, EmptyObj, ok))
          /\ IF ok
             THEN LET mimeType == contentType
                      fileName == messageId \o << ".eml" >>
                  IN  AttachBinary(dataPropertyNameDownload, fileName, mimeType, helperOk)
             ELSE /\ CatchInPlace(ApiError, items)
                  /\ UNCHANGED heap
    /\ UNCHANGED << input, returnData, qs, responseData, local >>

(* Attachment metadata a details request may answer with. *)
AttachmentDetails ==
    { [name |-> << "report.pdf" >>, contentType |-> << "application/pdf" >>],
      [name |-> << "notes" >>, contentType |-> NoString] }

(* Variant of the metadata request that goes on to the $value request *)
(* whether or not the metadata request succeeded                     *)
AttachmentDownloadDetailsIgnoresFailure ==
    /\ InLoop({"messageAttachment"}, "download")
    /\ LET messageId == getNodeParameter("messageId", i)
           attachmentId == getNodeParameter("attachmentId", i)
       IN
       \E ok \in BOOLEAN, attachmentDetails \in AttachmentDetails :
          /\ requests' = Append(requests,
                [ Call(i, "microsoftApiRequest", "GET",
                       << "/messages/" >> \o messageId \o << "/attachments/" >> \o attachmentId,
                       EmptyObj, ("$select" :> "id,name,contentType"), ok)
                  EXCEPT !.response = IF ok THEN attachmentDetails ELSE EmptyObj ])
          /\ local' = [mimeType |-> attachmentDetails.contentType,
                       fileName |-> attachmentDetails.name]
          /\ pc' = "value"
          /\ UNCHANGED << items, i, status, thrown, output >>
    /\ UNCHANGED << input, heap, returnData, qs, responseData >>

AttachmentDownloadDetails ==
    /\ InLoop({"messageAttachment"}, "download")
    /\ LET messageId == getNodeParameter("messageId", i)
           attachmentId == getNodeParameter("attachmentId", i)
       IN
       \E ok \in BOOLEAN, attachmentDetails \in AttachmentDetails :
          /\ requests' = Append(requests,
                [ Call(i, "microsoftApiRequest", "GET",
                       << "/messages/" >> \o messageId \o << "/attachments/" >> \o attachmentId,
                       EmptyObj, ("$select" :> "id,name,contentType"), ok)
                  EXCEPT !.response = IF ok THEN attachmentDetails ELSE EmptyObj ])
          /\ IF ok
             THEN /\ local' = [mimeType |-> attachmentDetails.contentType,
                               fileName |-> attachmentDetails.name]
                  /\ pc' = "value"
                  /\ UNCHANGED << items, i, status, thrown, output >>
             ELSE /\ CatchInPlace(ApiError, items)
                  /\ UNCHANGED local
    /\ UNCHANGED << input, heap, returnData, qs, responseData >>

AttachmentDownloadValue ==
    /\ AtAwait({"messageAttachment"}, "download", "value")
    /\ LET messageId == getNodeParameter("messageId", i)
           attachmentId == getNodeParameter("attachmentId", i)
           dataPropertyNameDownload == getNodeParameter("binaryPropertyName", i)
       IN
       \E ok \in BOOLEAN, helperOk \in BOOLEAN :
          /\ requests' = Append(requests,
                Call(i, "microsoftApiRequest", "GET",
                     << "/messages/" >> \o messageId \o << "/attachments/" >> \o attachmentId
                        \o << "/$value" >>,
                     EmptyObj, EmptyObj, ok))
          /\ IF ok
             THEN AttachBinary(dataPropertyNameDownload, local.fileName, local.mimeType, helperOk)
             ELSE /\ CatchInPlace(ApiError, items)
                  /\ UNCHANGED heap
          /\ local' = EmptyObj
    /\ UNCHANGED << input, returnData, qs, responseData >>

----------------------------------------------------------------------------
(* message : getAll, move, send *)

(* qs.$top = this.getNodeParameter('limit', i) *)
WithTop(query, idx) == Put(query, "$top", getNodeParameter("limit", idx))

(* Record counts a list call for item idx may answer with: any count when  *)
(* the helper pages to the end, at most $top for the single request.       *)
AnswerCounts(idx) ==
    IF getNodeParameter("returnAll", idx)
    THEN RespCounts
    ELSE { k \in RespCounts : k <= getNodeParameter("limit", idx) }

MessageGetAll ==
    /\ InLoop({"message"}, "getAll")
    /\ LET returnAll == getNodeParameter("returnAll", i)
           additionalFields == getNodeParameter("additionalFields", i)
           query == IF returnAll
                    THEN SelectAndFilter(qs, additionalFields)
                    ELSE WithTop(SelectAndFilter(qs, additionalFields), i)
       IN
       /\ local' = [additionalFields |-> additionalFields]
       /\ qs' = query
       /\ \E ok \in BOOLEAN, k \in AnswerCounts(i) :
          /\ requests' = Append(requests,
                IF returnAll
                THEN Call(i, "microsoftApiRequestAllItems", "GET", << "/messages" >>,
                          EmptyObj, query, ok)
                ELSE Call(i, "microsoftApiRequest", "GET", << "/messages" >>,
                          EmptyObj, query, ok))
          /\ IF ok
             THEN /\ responseData' = ResponseArray(i, k)
                  /\ IF Truthy(additionalFields, "dataPropertyAttachmentsPrefixName")
                     THEN /\ pc' = "downloadAttachments"
                          /\ UNCHANGED << returnData, i, status, thrown, output >>
                     ELSE PushAndContinue(ResponseArray(i, k))
             ELSE /\ UNCHANGED responseData
                  /\ CatchBlock(ApiError)
    /\ UNCHANGED << input, items, heap >>

(* Variant of the attachment download of message getAll that returns the *)
(* batch as soon as the first download is done                            *)
MessageGetAllAttachmentsReturnsAtOnce ==
    /\ AtAwait({"message"}, "getAll", "downloadAttachments")
    /\ LET prefix == local.additionalFields["dataPropertyAttachmentsPrefixName"] IN
       \E ok \in BOOLEAN :
          /\ requests' = Append(requests,
                Call(i, "downloadAttachments", "GET", << "/messages/", "/attachments" >>,
                     EmptyObj, EmptyObj, ok))
          /\ IF ok
             THEN ReturnEarly(downloadAttachments(responseData, prefix))
             ELSE CatchBlock(ApiError)
    /\ UNCHANGED << input, items, heap, qs, responseData, local >>

MessageGetAllAttachments ==
    /\ AtAwait({"message"}, "getAll", "downloadAttachments")
    /\ LET prefix == local.additionalFields["dataPropertyAttachmentsPrefixName"] IN
       \E ok \in BOOLEAN :
          /\ requests' = Append(requests,
                Call(i, "downloadAttachments", "GET", << "/messages/", "/attachments" >>,
                     EmptyObj, EmptyObj, ok))
          /\ IF ok
             THEN PushAndContinue(downloadAttachments(responseData, prefix))
             ELSE CatchBlock(ApiError)
    /\ UNCHANGED << input, items, heap, qs, responseData, local >>

(* if (additionalFields.dataPropertyAttachmentsPrefixName) after the loop *)
GetAllReturnsEarly ==
    /\ resource = "message"
    /\ operation = "getAll"
    /\ Has(local, "additionalFields")
    /\ Truthy(local.additionalFields, "dataPropertyAttachmentsPrefixName")

MessageGetAllReturn ==
    /\ status = "running"
    /\ pc = "loop"
    /\ i >= length
    /\ GetAllReturnsEarly
    /\ status' = "returned"
    /\ output' = [kind |-> "returnData", data |-> returnData]
    /\ pc' = "done"
    /\ UNCHANGED << input, items, heap, returnData, qs, responseData, i, local, requests,
                    thrown >>

MessageMove ==
    /\ InLoop({"message"}, "move")
    /\ LET messageId == getNodeParameter("messageId", i)
           destinationId == getNodeParameter("folderId", i)
       IN
       \E ok \in BOOLEAN :
          /\ requests' = Append(requests,
                Call(i, "microsoftApiRequest", "POST",
                     << "/messages/" >> \o messageId \o << "/move" >>,
                     [destinationId |-> destinationId], EmptyObj, ok))
          /\ IF ok
             THEN /\ responseData' = ResponseObject(i)
                  /\ PushAndContinue(SuccessJson)
             ELSE /\ UNCHANGED responseData
                  /\ CatchBlock(ApiError)
    /\ UNCHANGED << input, items, heap, qs, local >>

MessageSend ==
    /\ InLoop({"message"}, "send")
    /\ LET additionalFields == getNodeParameter("additionalFields", i)
           saveToSentItems == IF Has(additionalFields, "saveToSentItems")
                              THEN additionalFields["saveToSentItems"]
                              ELSE TRUE
           message == [subject |-> getNodeParameter("subject", i),
                       toRecipients |-> getNodeParameter("toRecipients", i),
                       attachments |-> IF Truthy(additionalFields, "attachments")
                                       THEN binaryToAttachments(additionalFields["attachments"])
                                       ELSE << >>]
           body == [message |-> message, saveToSentItems |-> saveToSentItems]
       IN
       \E helperOk \in BOOLEAN, ok \in BOOLEAN :
          IF Truthy(additionalFields, "attachments") /\ ~helperOk
          THEN /\ CatchBlock(HelperError)
               /\ UNCHANGED << requests, responseData >>
          ELSE /\ requests' = Append(requests,
                     Call(i, "microsoftApiRequest", "POST", << "/sendMail" >>, body, EmptyObj, ok))
               /\ IF ok
                  THEN /\ responseData' = EmptyObj
                       /\ PushAndContinue(SuccessJson)
                  ELSE /\ UNCHANGED responseData
                       /\ CatchBlock(ApiError)
    /\ UNCHANGED << input, items, heap, qs, local >>

----------------------------------------------------------------------------
(* messageAttachment : add *)

(* 3e6: the length above which the upload session is used *)
Threshold == 3000000

(* const chunkSize = 4e6 *)
chunkSize == 4000000

NoBinaryError ==
    [name |-> "NodeOperationError", message |-> << "No binary data exists on item!" >>]

NoPropertyError(binaryPropertyName) ==
    [name |-> "NodeOperationError",
     message |-> << "Item has no binary property called \"", binaryPropertyName, "\"" >>]

NoFileNameError ==
    [name |-> "NodeOperationError", message |-> << "File name is not set. It has either to be set via \"Additional Fields\" or has to be set on the binary property!" >>]

UploadSessionError ==
    [name |-> "NodeApiError", message |-> << "Failed to get upload session" >>]

(* this.helpers.getBinaryDataBuffer(i, propertyName): the bytes behind the *)
(* binary property, known here by their number.                            *)
getBinaryDataBuffer(binaryData) == [length |-> binaryData.size]

(* Buffer.prototype.subarray(start, end): a view, bounds clamped *)
subarray(buffer, start, end) ==
    LET from == Min(Max(start, 0), buffer.length)
        to == Min(Max(end, 0), buffer.length)
    IN  [byteOffset |-> from, length |-> Max(to - from, 0)]

(* `bytes ${start}-${end}/${total}` *)
ContentRange(start, end, total) ==
    [unit |-> "bytes", start |-> start, end |-> end, total |-> total]

(* What a createUploadSession response may carry as uploadUrl for item idx; *)
(* NoString is a response without the key.                                  *)
UploadUrls(idx) == { NoString, << "https://upload.example/", ToString(idx) >> }

(* Variant of the path test that sends a buffer of exactly 3e6 bytes to *)
(* the upload session                                                    *)
IsLargeFileAtThreshold(dataBuffer) == dataBuffer.length >= Threshold

(* if (dataBuffer.length > 3e6) *)
IsLargeFile(dataBuffer) == dataBuffer.length > Threshold

(* Variant of the upload url test that accepts a response without one *)
UploadUrlNeverMissing(uploadUrl) == FALSE

(* if (uploadUrl === undefined) *)
UploadUrlMissing(uploadUrl) == uploadUrl = NoString

AttachmentAdd ==
    /\ InLoop({"messageAttachment"}, "add")
    /\ LET messageId == getNodeParameter("messageId", i)
           binaryPropertyName == getNodeParameter("binaryPropertyName", 0)
           additionalFields == getNodeParameter("additionalFields", i)
           ref == items[i + 1].binary
       IN
       IF ref = UndefinedRef
       THEN /\ CatchBlock(NoBinaryError)
            /\ UNCHANGED << requests, responseData, local >>
       ELSE IF ~Has(heap[ref], binaryPropertyName)
       THEN /\ CatchBlock(NoPropertyError(binaryPropertyName))
            /\ UNCHANGED << requests, responseData, local >>
       ELSE
       LET binaryData == heap[ref][binaryPropertyName]
           dataBuffer == getBinaryDataBuffer(binaryData)
           fileName == IF ~Has(additionalFields, "fileName")
                       THEN binaryData.fileName
                       ELSE additionalFields["fileName"]
       IN
       \E ok \in BOOLEAN, uploadUrl \in UploadUrls(i) :
          IF Falsy(fileName)
          THEN /\ CatchBlock(NoFileNameError)
               /\ UNCHANGED << requests, responseData, local >>
          ELSE IF IsLargeFile(dataBuffer)
          THEN /\ requests' = Append(requests,
                     [ Call(i, "microsoftApiRequest", "POST",
                            << "/messages/" >> \o messageId
                               \o << "/attachments/createUploadSession" >>,
                            [AttachmentItem |-> [attachmentType |-> "file", name |-> fileName,
                                                 size |-> dataBuffer.length]],
                            EmptyObj, ok)
                       EXCEPT !.response = IF ok THEN [uploadUrl |-> uploadUrl]
                                                 ELSE EmptyObj ])
               /\ IF ~ok
                  THEN /\ CatchBlock(ApiError)
                       /\ UNCHANGED << responseData, local >>
                  ELSE /\ responseData' = [uploadUrl |-> uploadUrl]
                       /\ IF UploadUrlMissing(uploadUrl)
                          THEN /\ CatchBlock(UploadSessionError)
                               /\ UNCHANGED local
                          ELSE IF 0 < dataBuffer.length
                          THEN /\ local' = [bytesUploaded |-> 0, uploadUrl |-> uploadUrl,
                                            dataBuffer |-> dataBuffer]
                               /\ pc' = "upload"
                               /\ UNCHANGED << returnData, i, status, thrown, output >>
                          ELSE /\ PushAndContinue(SuccessJson)
                               /\ UNCHANGED local
          ELSE /\ requests' = Append(requests,
                     Call(i, "microsoftApiRequest", "POST",
                          << "/messages/" >> \o messageId \o << "/attachments" >>,
                          [odataType |-> "#microsoft.graph.fileAttachment", name |-> fileName,
                           contentBytes |-> [encoding |-> "base64",
                                             length |-> dataBuffer.length]],
                          EmptyObj, ok))
               /\ UNCHANGED local
               /\ IF ok
                  THEN /\ responseData' = ResponseObject(i)
                       /\ PushAndContinue(SuccessJson)
                  ELSE /\ UNCHANGED responseData
                       /\ CatchBlock(ApiError)
    /\ UNCHANGED << input, items, heap, qs >>

(* Variant of the loop increment that skips one byte between chunks *)
NextBytesUploadedSkipsByte(bytesUploaded) == bytesUploaded + chunkSize + 1

(* Variant of the loop increment that stays on a chunk once the first has *)
(* been sent                                                              *)
NextBytesUploadedRepeats(bytesUploaded) == Max(bytesUploaded, chunkSize)

(* The loop increment: bytesUploaded += chunkSize *)
NextBytesUploaded(bytesUploaded) == bytesUploaded + chunkSize

(* One pass of the chunk loop: the PUT of the chunk at local.bytesUploaded *)
AttachmentAddChunk ==
    /\ AtAwait({"messageAttachment"}, "add", "upload")
    /\ LET bytesUploaded == local.bytesUploaded
           dataBuffer == local.dataBuffer
           nextChunk == Min(bytesUploaded + chunkSize, dataBuffer.length)
           contentRange == ContentRange(bytesUploaded, nextChunk - 1, dataBuffer.length)
           data == subarray(dataBuffer, bytesUploaded, nextChunk)
       IN
       \E ok \in BOOLEAN :
          /\ requests' = Append(requests,
                [ Call(i, "helpers.request", "PUT", local.uploadUrl, data, EmptyObj, ok)
                  EXCEPT !.headers = [ContentType |-> "application/octet-stream",
                                      ContentLength |-> data.length,
                                      ContentRange |-> contentRange] ])
          /\ IF ~ok
             THEN /\ CatchBlock(ApiError)
                  /\ local' = EmptyObj
                  /\ UNCHANGED responseData
             ELSE /\ responseData' = EmptyObj
                  /\ IF NextBytesUploaded(bytesUploaded) < dataBuffer.length
                     THEN /\ local' = [local EXCEPT !.bytesUploaded =
                                                       NextBytesUploaded(bytesUploaded)]
                          /\ UNCHANGED << returnData, i, pc, status, thrown, output >>
                     ELSE /\ local' = EmptyObj
                          /\ PushAndContinue(SuccessJson)
    /\ UNCHANGED << input, items, heap, qs >>

----------------------------------------------------------------------------
(* messageAttachment : get, getAll *)

(* qs.$select = 'id,lastModifiedDateTime,name,contentType,size,isInline' *)
DefaultSelect(query) ==
    Put(query, "$select", "id,lastModifiedDateTime,name,contentType,size,isInline")

(* The default, then if (additionalFields.fields) qs.$select = fields *)
SelectWithDefault(query, additionalFields) ==
    IF Truthy(additionalFields, "fields")
    THEN Put(DefaultSelect(query), "$select", additionalFields["fields"])
    ELSE DefaultSelect(query)

(* if (additionalFields.filter) qs.$filter = filter *)
FilterOnly(query, additionalFields) ==
    IF Truthy(additionalFields, "filter")
    THEN Put(query, "$filter", additionalFields["filter"])
    ELSE query

AttachmentGet ==
    /\ InLoop({"messageAttachment"}, "get")
    /\ LET messageId == getNodeParameter("messageId", i)
           attachmentId == getNodeParameter("attachmentId", i)
           additionalFields == getNodeParameter("additionalFields", i)
           query == SelectWithDefault(qs, additionalFields)
       IN
       /\ qs' = query
       /\ \E ok \in BOOLEAN :
          /\ requests' = Append(requests,
                Call(i, "microsoftApiRequest", "GET",
                     << "/messages/" >> \o messageId \o << "/attachments/" >> \o attachmentId,
                     EmptyObj, query, ok))
          /\ IF ok
             THEN /\ responseData' = ResponseObject(i)
                  /\ PushAndContinue(ResponseObject(i))
             ELSE /\ UNCHANGED responseData
                  /\ CatchBlock(ApiError)
    /\ UNCHANGED << input, items, heap, local >>

AttachmentGetAll ==
    /\ InLoop({"messageAttachment"}, "getAll")
    /\ LET messageId == getNodeParameter("messageId", i)
           returnAll == getNodeParameter("returnAll", i)
           additionalFields == getNodeParameter("additionalFields", i)
           endpoint == << "/messages/" >> \o messageId \o << "/attachments" >>
           selected == FilterOnly(SelectWithDefault(qs, additionalFields), additionalFields)
           query == IF returnAll THEN selected ELSE WithTop(selected, i)
       IN
       /\ qs' = query
       /\ \E ok \in BOOLEAN, k \in AnswerCounts(i) :
          /\ requests' = Append(requests,
                IF returnAll
                THEN Call(i, "microsoftApiRequestAllItems", "GET", endpoint, EmptyObj, query, ok)
                ELSE Call(i, "microsoftApiRequest", "GET", endpoint, EmptyObj, query, ok))
          /\ IF ok
             THEN /\ responseData' = ResponseArray(i, k)
                  /\ PushAndContinue(ResponseArray(i, k))
             ELSE /\ UNCHANGED responseData
                  /\ CatchBlock(ApiError)
    /\ UNCHANGED << input, items, heap, local >>

----------------------------------------------------------------------------
(* folder : create, delete, get, getAll, getChildren, update *)

FolderCreate ==
    /\ InLoop({"folder"}, "create")
    /\ LET displayName == getNodeParameter("displayName", i)
           folderType == getNodeParameter("folderType", i)
           endpoint == IF folderType = "searchFolder"
                       THEN << "/mailFolders/searchfolders/childFolders" >>
                       ELSE << "/mailFolders" >>
           body == IF folderType = "searchFolder"
                   THEN [displayName |-> displayName,
                         odataType |-> "microsoft.graph.mailSearchFolder"]
                   ELSE [displayName |-> displayName]
       IN
       \E ok \in BOOLEAN :
          /\ requests' = Append(requests,
                Call(i, "microsoftApiRequest", "POST", endpoint, body, EmptyObj, ok))
          /\ IF ok
             THEN /\ responseData' = ResponseObject(i)
                  /\ PushAndContinue(ResponseObject(i))
             ELSE /\ UNCHANGED responseData
                  /\ CatchBlock(ApiError)
    /\ UNCHANGED << input, items, heap, qs, local >>

FolderDelete ==
    /\ InLoop({"folder"}, "delete")
    /\ LET folderId == getNodeParameter("folderId", i) IN
       \E ok \in BOOLEAN :
          /\ requests' = Append(requests,
                Call(i, "microsoftApiRequest", "DELETE", << "/mailFolders/" >> \o folderId,
                     EmptyObj, EmptyObj, ok))
          /\ IF ok
             THEN /\ responseData' = EmptyObj
                  /\ PushAndContinue(SuccessJson)
             ELSE /\ UNCHANGED responseData
                  /\ CatchBlock(ApiError)
    /\ UNCHANGED << input, items, heap, qs, local >>

FolderGet ==
    /\ InLoop({"folder"}, "get")
    /\ LET folderId == getNodeParameter("folderId", i)
           additionalFields == getNodeParameter("additionalFields", i)
           query == SelectAndFilter(qs, additionalFields)
       IN
       /\ qs' = query
       /\ \E ok \in BOOLEAN :
          /\ requests' = Append(requests,
                Call(i, "microsoftApiRequest", "GET", << "/mailFolders/" >> \o folderId,
                     EmptyObj, query, ok))
          /\ IF ok
             THEN /\ responseData' = ResponseObject(i)
                  /\ PushAndContinue(ResponseObject(i))
             ELSE /\ UNCHANGED responseData
                  /\ CatchBlock(ApiError)
    /\ UNCHANGED << input, items, heap, local >>

FolderGetAll ==
    /\ InLoop({"folder"}, "getAll")
    /\ LET returnAll == getNodeParameter("returnAll", i)
           additionalFields == getNodeParameter("additionalFields", i)
           query == IF returnAll
                    THEN SelectAndFilter(qs, additionalFields)
                    ELSE WithTop(SelectAndFilter(qs, additionalFields), i)
       IN
       /\ qs' = query
       /\ \E ok \in BOOLEAN, k \in AnswerCounts(i) :
          /\ requests' = Append(requests,
                IF returnAll
                THEN Call(i, "microsoftApiRequestAllItems", "GET", << "/mailFolders" >>,
                          EmptyObj, query, ok)
                ELSE Call(i, "microsoftApiRequest", "GET", << "/mailFolders" >>,
                          EmptyObj, query, ok))
          /\ IF ok
             THEN /\ responseData' = ResponseArray(i, k)
                  /\ PushAndContinue(ResponseArray(i, k))
             ELSE /\ UNCHANGED responseData
                  /\ CatchBlock(ApiError)
    /\ UNCHANGED << input, items, heap, local >>

(* With returnAll the helper is called as (propertyName, method, endpoint, qs): *)
(* qs is its fourth argument, the body.                                        *)
FolderGetChildren ==
    /\ InLoop({"folder"}, "getChildren")
    /\ LET folderId == getNodeParameter("folderId", i)
           returnAll == getNodeParameter("returnAll", i)
           additionalFields == getNodeParameter("additionalFields", i)
           endpoint == << "/mailFolders/" >> \o folderId \o << "/childFolders" >>
           query == IF returnAll
                    THEN SelectAndFilter(qs, additionalFields)
                    ELSE WithTop(SelectAndFilter(qs, additionalFields), i)
       IN
       /\ qs' = query
       /\ \E ok \in BOOLEAN, k \in AnswerCounts(i) :
          /\ requests' = Append(requests,
                IF returnAll
                THEN Call(i, "microsoftApiRequestAllItems", "GET", endpoint, query, EmptyObj, ok)
                ELSE Call(i, "microsoftApiRequest", "GET", endpoint, EmptyObj, query, ok))
          /\ IF ok
             THEN /\ responseData' = ResponseArray(i, k)
                  /\ PushAndContinue(ResponseArray(i, k))
             ELSE /\ UNCHANGED responseData
                  /\ CatchBlock(ApiError)
    /\ UNCHANGED << input, items, heap, local >>

FolderUpdate ==
    /\ InLoop({"folder"}, "update")
    /\ LET folderId == getNodeParameter("folderId", i)
           updateFields == getNodeParameter("updateFields", i)
       IN
       \E ok \in BOOLEAN :
          /\ requests' = Append(requests,
                Call(i, "microsoftApiRequest", "PATCH", << "/mailFolders/" >> \o folderId,
                     updateFields, EmptyObj, ok))
          /\ IF ok
             THEN /\ responseData' = ResponseObject(i)
                  /\ PushAndContinue(ResponseObject(i))
             ELSE /\ UNCHANGED responseData
                  /\ CatchBlock(ApiError)
    /\ UNCHANGED << input, items, heap, qs, local >>

----------------------------------------------------------------------------
(* folderMessage : getAll *)

FolderMessageGetAll ==
    /\ InLoop({"folderMessage"}, "getAll")
    /\ LET folderId == getNodeParameter("folderId", i)
           returnAll == getNodeParameter("returnAll", i)
           additionalFields == getNodeParameter("additionalFields", i)
           endpoint == << "/mailFolders/" >> \o folderId \o << "/messages" >>
           query == IF returnAll
                    THEN SelectAndFilter(qs, additionalFields)
                    ELSE WithTop(SelectAndFilter(qs, additionalFields), i)
       IN
       /\ qs' = query
       /\ \E ok \in BOOLEAN, k \in AnswerCounts(i) :
          /\ requests' = Append(requests,
                IF returnAll
                THEN Call(i, "microsoftApiRequestAllItems", "GET", endpoint, query, EmptyObj, ok)
                ELSE Call(i, "microsoftApiRequest", "GET", endpoint, EmptyObj, query, ok))
          /\ IF ok
             THEN /\ responseData' = ResponseArray(i, k)
                  /\ PushAndContinue(ResponseArray(i, k))
             ELSE /\ UNCHANGED responseData
                  /\ CatchBlock(ApiError)
    /\ UNCHANGED << input, items, heap, local >>

----------------------------------------------------------------------------
(* The end of execute *)

(* Variant of the end of execute that returns the accumulator for every operation *)
ReturnAccumulator ==
    /\ status = "running"
    /\ pc = "loop"
    /\ i >= length
    /\ ~GetAllReturnsEarly
    /\ status' = "returned"
    /\ output' = [kind |-> "returnData", data |-> returnData]
    /\ pc' = "done"
    /\ UNCHANGED << input, items, heap, returnData, qs, responseData, i, local, requests,
                    thrown >>

(* return this.prepareOutputData(items) or this.prepareOutputData(returnData) *)
Return ==
    /\ status = "running"
    /\ pc = "loop"
    /\ i >= length
    /\ ~GetAllReturnsEarly
    /\ status' = "returned"
    /\ output' = IF \/ (resource = "message" /\ operation = "getMime")
                    \/ (resource = "messageAttachment" /\ operation = "download")
                 THEN [kind |-> "items", data |-> items]
                 ELSE [kind |-> "returnData", data |-> returnData]
    /\ pc' = "done"
    /\ UNCHANGED << input, items, heap, returnData, qs, responseData, i, local, requests,
                    thrown >>

----------------------------------------------------------------------------
(* Inputs: node parameters and input items *)

(* Every object that has some of the keys of full, with full's values. *)
SubObjects(full) == { [k \in D |-> full[k]] : D \in SUBSET (DOMAIN full) }

QueryFields == [fields |-> "subject", filter |-> "isRead eq false"]

(* (returnAll, limit): the limit is only shown, and read, without returnAll *)
Paging ==
    { [returnAll |-> TRUE, limit |-> 2], [returnAll |-> FALSE, limit |-> 2],
      [returnAll |-> FALSE, limit |-> 3] }

ListParams(fieldSpace) ==
    { [returnAll |-> p.returnAll, limit |-> p.limit, additionalFields |-> a] :
        p \in Paging, a \in fieldSpace }

BinaryPropertyNames == {"data", "invoice"}

(* Optional fields of the get and list operations: every combination in   *)
(* the wide space, none / all in the narrow one.                           *)
FieldSpace(full, wide) ==
    IF wide THEN SubObjects(full) ELSE { EmptyObj, full }

PrefixOnly == [dataPropertyAttachmentsPrefixName |-> "attachment_"]

MessageFieldSpace(wide) ==
    IF wide
    THEN SubObjects(QueryFields) \cup { PrefixOnly }
    ELSE { EmptyObj, QueryFields, PrefixOnly }

AttachmentLists(wide) ==
    IF wide
    THEN { EmptyObj, [attachments |-> << >>], [attachments |-> << "data" >>],
           [attachments |-> << "data", "invoice" >>] }
    ELSE { EmptyObj, [attachments |-> << >>], [attachments |-> << "data", "invoice" >>] }

ReplyKinds(wide) ==
    IF wide
    THEN { [replyType |-> t, send |-> s] : t \in {"reply", "replyAll"}, s \in BOOLEAN }
    ELSE { [replyType |-> "reply", send |-> TRUE], [replyType |-> "replyAll", send |-> FALSE] }

FileNameFields(wide) ==
    IF wide
    THEN { EmptyObj, [fileName |-> << "a.txt" >>], [fileName |-> << "" >>] }
    ELSE { EmptyObj, [fileName |-> << "a.txt" >>] }

(* The values getNodeParameter can resolve for one item of the operation. *)
ParamSpace(res, op, wide) ==
    CASE op = "get" /\ res \in {"draft", "message"} ->
            { [additionalFields |-> a] : a \in MessageFieldSpace(wide) }
      [] op = "get" /\ res = "folder" ->
            { [additionalFields |-> a] : a \in FieldSpace(QueryFields, wide) }
      [] op = "get" /\ res = "messageAttachment" ->
            { [additionalFields |-> a] : a \in SubObjects([fields |-> "name"]) }
      [] op = "update" ->
            { [updateFields |-> [subject |-> "Updated"]] }
      [] op = "create" /\ res = "draft" ->
            { [subject |-> "Hello", additionalFields |-> a] :
                a \in { EmptyObj, [attachments |-> << "data" >>] } }
      [] op = "send" /\ res = "draft" ->
            { [additionalFields |-> a] :
                a \in { EmptyObj, [recipients |-> << "", "" >>],
                        [recipients |-> << "a@example.com", "" >>] } }
      [] op = "send" /\ res = "message" ->
            { [subject |-> "Hello", toRecipients |-> "a@example.com", additionalFields |-> a] :
                a \in { EmptyObj, [attachments |-> << "data" >>],
                        [saveToSentItems |-> FALSE] } }
      [] op = "reply" ->
            { [replyType |-> r.replyType, comment |-> "Thanks", send |-> r.send,
               additionalFields |-> a] :
                r \in ReplyKinds(wide), a \in AttachmentLists(wide) }
      [] op \in {"getMime", "download"} ->
            { [binaryPropertyName |-> n] : n \in BinaryPropertyNames }
      [] op = "getAll" /\ res = "message" ->
            ListParams(MessageFieldSpace(wide))
      [] op \in {"getAll", "getChildren"} /\ res # "message" ->
            ListParams(FieldSpace(QueryFields, wide))
      [] op = "add" ->
            { [binaryPropertyName |-> n, additionalFields |-> a] :
                n \in BinaryPropertyNames, a \in FileNameFields(wide) }
      [] op = "create" /\ res = "folder" ->
            { [displayName |-> "Archive", folderType |-> t] : t \in {"folder", "searchFolder"} }
      [] OTHER -> { EmptyObj }

BinaryData(fileName, size) ==
    [fileName |-> fileName, mimeType |-> << "application/octet-stream" >>, size |-> size]

NoBinary == [defined |-> FALSE, map |-> EmptyObj]

(* Buffer lengths of the named property "data": empty, just above the     *)
(* threshold, two whole chunks, two chunks and a part.  The threshold       *)
(* itself is the length of the other binary properties below.               *)
BoundaryLengths == { Threshold + 1 }

UploadLengths == { 0, Threshold + 1, 2 * chunkSize, 2 * chunkSize + 1000000 }

(* The binary maps an input item of the operation may carry. *)
BinarySpace(res, op, lengths) ==
    CASE op \in {"getMime", "download"} ->
            { NoBinary,
              [defined |-> TRUE, map |-> EmptyObj],
              [defined |-> TRUE, map |-> [invoice |-> BinaryData(<< "invoice.pdf" >>, 5)]],
              [defined |-> TRUE, map |-> [data |-> BinaryData(<< "old.bin" >>, 6)]] }
      [] op = "add" ->
            { NoBinary,
              [defined |-> TRUE, map |-> [data |-> BinaryData(NoString, Threshold)]] }
            \cup { [defined |-> TRUE, map |-> [data |-> BinaryData(<< "b.txt" >>, n)]] :
                     n \in lengths }
            \cup { [defined |-> TRUE, map |-> [invoice |-> BinaryData(<< "c.txt" >>, Threshold)]] }
      [] OTHER -> { NoBinary }

(* The JSON of input item idx. *)
InputJson(idx) == [kind |-> "object", input |-> ToString(idx)]

(* The state at entry of execute for the given operations, buffer lengths  *)
(* and parameter space.                                                    *)
InitWith(ops, lengths, wide) ==
    /\ \E o \in ops : resource = o[1] /\ operation = o[2]
    /\ continueOnFail \in BOOLEAN
    /\ length \in 0..MaxItems
    /\ params \in [1..length -> ParamSpace(resource, operation, wide)]
    /\ inputBinary \in [1..length -> BinarySpace(resource, operation, lengths)]
    /\ items = [k \in 1..length |->
                  [json |-> InputJson(k - 1),
                   binary |-> IF inputBinary[k].defined THEN k ELSE UndefinedRef]]
    /\ heap = [r \in 1..(2 * length) |->
                  IF r <= length THEN inputBinary[r].map ELSE EmptyObj]
    /\ returnData = << >>
    /\ qs = EmptyObj
    /\ responseData = EmptyObj
    /\ i = 0
    /\ pc = "loop"
    /\ local = EmptyObj
    /\ requests = << >>
    /\ status = "running"
    /\ thrown = NoError
    /\ output = [kind |-> "none", data |-> << >>]

Init == InitWith(Operations, BoundaryLengths, FALSE)

Next ==
    \/ DraftMessageDelete
    \/ DraftMessageGet
    \/ DraftMessageGetAttachments
    \/ DraftMessageUpdate
    \/ DraftCreate
    \/ DraftSendRecipients
    \/ DraftSend
    \/ MessageReply
    \/ MessageReplyAttachments
    \/ MessageReplySend
    \/ MessageGetMime
    \/ MessageGetAll
    \/ MessageGetAllAttachments
    \/ MessageGetAllReturn
    \/ MessageMove
    \/ MessageSend
    \/ AttachmentAdd
    \/ AttachmentAddChunk
    \/ AttachmentDownloadDetails
    \/ AttachmentDownloadValue
    \/ AttachmentGet
    \/ AttachmentGetAll
    \/ FolderCreate
    \/ FolderDelete
    \/ FolderGet
    \/ FolderGetAll
    \/ FolderGetChildren
    \/ FolderUpdate
    \/ FolderMessageGetAll
    \/ Return

Spec == Init /\ [][Next]_vars

----------------------------------------------------------------------------
(* messageAttachment add alone, over every buffer length *)

InitAdd == InitWith({ << "messageAttachment", "add" >> }, UploadLengths, TRUE)

NextAdd ==
    \/ AttachmentAdd
    \/ AttachmentAddChunk
    \/ Return

SpecAdd == InitAdd /\ [][NextAdd]_vars

(* The two in-place operations alone *)

InitInPlace == InitWith(InPlaceOps, BoundaryLengths, TRUE)

NextInPlace ==
    \/ MessageGetMime
    \/ AttachmentDownloadDetails
    \/ AttachmentDownloadValue
    \/ Return

SpecInPlace == InitInPlace /\ [][NextInPlace]_vars

(* The operations that send qs, over every combination of optional fields *)

QueryOps ==
    ListOps \cup { << "draft", "get" >>, << "message", "get" >>,
                   << "messageAttachment", "get" >>, << "folder", "get" >> }

InitQuery == InitWith(QueryOps, BoundaryLengths, TRUE)

NextQuery ==
    \/ DraftMessageGet
    \/ DraftMessageGetAttachments
    \/ MessageGetAll
    \/ MessageGetAllAttachments
    \/ MessageGetAllReturn
    \/ AttachmentGet
    \/ AttachmentGetAll
    \/ FolderGet
    \/ FolderGetAll
    \/ FolderGetChildren
    \/ FolderMessageGetAll
    \/ Return

SpecQuery == InitQuery /\ [][NextQuery]_vars

----------------------------------------------------------------------------
(* Properties *)

Op == << resource, operation >>

IsError(json) == Has(json, "error")

(* The records the accumulator holds for item idx *)
RecordsOf(idx) == SelectSeq(returnData, LAMBDA r : r.pairedItem.item = idx)

(* The calls issued for item idx *)
CallsOf(idx) == SelectSeq(requests, LAMBDA r : r.item = idx)

ItemIndexes == 0..(length - 1)

(* draft/message get with an attachment-download prefix on some item *)
GetWithPrefix ==
    /\ operation = "get"
    /\ resource \in {"draft", "message"}
    /\ \E k \in 1..length :
          Has(params[k].additionalFields, "dataPropertyAttachmentsPrefixName")

(* C1 as stated: under continue-on-fail every result-accumulation operation *)
(* returns exactly N records, the record at position i carrying origin      *)
(* index i.                                                                  *)
C1_OneRecordPerItemEveryOperation ==
    (status = "returned" /\ continueOnFail /\ Op \notin InPlaceOps)
    => /\ Len(output.data) = length
       /\ \A k \in 1..Len(output.data) : output.data[k].pairedItem.item = k - 1

(* C1 amended: under continue-on-fail, every result-accumulation operation  *)
(* that is not a list operation, and that is not draft/message get with an   *)
(* attachment-download prefix, returns exactly N records, the record at      *)
(* position i carrying origin index i, whatever subset of the items failed.  *)
C1_OneRecordPerItem ==
    ( /\ status = "returned"
      /\ continueOnFail
      /\ Op \notin InPlaceOps
      /\ Op \notin ListOps
      /\ ~GetWithPrefix )
    => /\ output.kind = "returnData"
       /\ Len(output.data) = length
       /\ \A k \in 1..Len(output.data) : output.data[k].pairedItem.item = k - 1

(* A batch of at least two items of messageAttachment add returned with an  *)
(* error record and a success record.                                        *)
C1_Witness ==
    /\ status = "returned"
    /\ continueOnFail
    /\ Op = << "messageAttachment", "add" >>
    /\ length >= 2
    /\ \E a, b \in 1..Len(output.data) :
          /\ IsError(output.data[a].json)
          /\ ~IsError(output.data[b].json)

----------------------------------------------------------------------------
(* The in-place operations *)

(* Heap reference of the binary map input item idx arrived with *)
InputRef(idx) == IF inputBinary[idx + 1].defined THEN idx + 1 ELSE UndefinedRef

(* The binary map an item holds now; an item without one holds no field *)
BinaryOf(item) == IF item.binary = UndefinedRef THEN EmptyObj ELSE heap[item.binary]

(* C2: when message getMime or messageAttachment download returns, it       *)
(* returns the items sequence and never the accumulator; the sequence has    *)
(* exactly N items, and the item at position i has the JSON of input i or an *)
(* error marker, and the binary fields of input i plus at most one new       *)
(* field, the one named by item i's binary property name.                    *)
C2_InPlacePositional ==
    (Op \in InPlaceOps /\ status = "returned")
    => /\ output.kind = "items"
       /\ returnData = << >>
       /\ Len(output.data) = length
       /\ \A k \in 1..Len(output.data) :
             LET item == output.data[k]
                 before == inputBinary[k].map
                 name == params[k].binaryPropertyName
             IN  /\ IsError(item.json) \/ item.json = InputJson(k - 1)
                 /\ item.binary = UndefinedRef => ~inputBinary[k].defined
                 /\ DOMAIN before \subseteq DOMAIN BinaryOf(item)
                 /\ DOMAIN BinaryOf(item) \subseteq (DOMAIN before) \cup {name}
                 /\ \A f \in (DOMAIN before) \ {name} : BinaryOf(item)[f] = before[f]

(* A returned batch of at least two items in which one item failed and      *)
(* another received its new binary field.                                    *)
C2_Witness ==
    /\ Op \in InPlaceOps
    /\ status = "returned"
    /\ length >= 2
    /\ \E a, b \in 1..length :
          /\ IsError(output.data[a].json)
          /\ ~IsError(output.data[b].json)
          /\ Has(BinaryOf(output.data[b]), params[b].binaryPropertyName)
          /\ ~Has(inputBinary[b].map, params[b].binaryPropertyName)

(* Item idx was handled without failure by an in-place operation *)
SucceededInPlace(idx) == idx < i /\ ~IsError(items[idx + 1].json)

(* C8: after a successful getMime or download on item i, the item's binary  *)
(* map holds the new field under the requested name and every field input i  *)
(* had under another name, with its original value; the binary map object    *)
(* the input item arrived with is never modified.                            *)
C8_BinaryFieldsPreserved ==
    Op \in InPlaceOps
    => /\ \A k \in 1..length : heap[k] = inputBinary[k].map
       /\ \A idx \in ItemIndexes :
             SucceededInPlace(idx)
             => LET item == items[idx + 1]
                    before == inputBinary[idx + 1].map
                    name == params[idx + 1].binaryPropertyName
                IN  /\ item.binary # UndefinedRef
                    /\ item.binary # InputRef(idx)
                    /\ item.json = InputJson(idx)
                    /\ Has(BinaryOf(item), name)
                    /\ BinaryOf(item)[name].size = ResponseBody(idx).length
                    /\ \A f \in (DOMAIN before) \ {name} :
                          Has(BinaryOf(item), f) /\ BinaryOf(item)[f] = before[f]

(* getMime has succeeded on an item that arrived with the binary field      *)
(* invoice and asked for the new field data.                                 *)
C8_Witness ==
    /\ Op = << "message", "getMime" >>
    /\ \E idx \in ItemIndexes :
          /\ SucceededInPlace(idx)
          /\ Has(inputBinary[idx + 1].map, "invoice")
          /\ params[idx + 1].binaryPropertyName = "data"
          /\ Has(BinaryOf(items[idx + 1]), "data")
          /\ Has(BinaryOf(items[idx + 1]), "invoice")

(* C9: with continue-on-fail, a failure of getMime or download on item i    *)
(* overwrites item i's JSON with the error marker and nothing else: nothing  *)
(* is appended to the accumulator or to the items, item i keeps its place    *)
(* and its binary fields, the items not yet handled are as they arrived, and *)
(* the loop has moved on to item i+1.                                        *)
C9_FailureOverwritesJson ==
    (Op \in InPlaceOps /\ continueOnFail)
    => /\ returnData = << >>
       /\ Len(items) = length
       /\ status # "thrown"
       /\ \A idx \in ItemIndexes :
             /\ (\E j \in 1..Len(requests) : requests[j].item = idx /\ ~requests[j].ok)
                => /\ idx < i
                   /\ items[idx + 1].json = ErrorJson(ApiError.message)
                   /\ items[idx + 1].binary = InputRef(idx)
                   /\ ~(CallsOf(idx)[Len(CallsOf(idx))]).ok
             /\ (idx < i /\ IsError(items[idx + 1].json))
                => BinaryOf(items[idx + 1]) = inputBinary[idx + 1].map
             /\ (idx > i \/ (idx = i /\ pc = "loop"))
                => items[idx + 1] = [json |-> InputJson(idx), binary |-> InputRef(idx)]

(* With continue-on-fail, download failed on the first item, then succeeded *)
(* on the second.                                                            *)
C9_Witness ==
    /\ Op = << "messageAttachment", "download" >>
    /\ continueOnFail
    /\ i = 2
    /\ IsError(items[1].json)
    /\ Has(inputBinary[1].map, "invoice")
    /\ SucceededInPlace(1)

----------------------------------------------------------------------------
(* messageAttachment add *)

(* The binary property item idx is read with: the name is resolved at     *)
(* index 0 for every item.                                                *)
AddPropertyName == params[1].binaryPropertyName

(* Item idx passes the three checks that precede the transfer *)
AddValidated(idx) ==
    /\ inputBinary[idx + 1].defined
    /\ Has(inputBinary[idx + 1].map, AddPropertyName)
    /\ LET additionalFields == params[idx + 1].additionalFields
           binaryData == inputBinary[idx + 1].map[AddPropertyName]
       IN  ~Falsy(IF Has(additionalFields, "fileName")
                  THEN additionalFields["fileName"]
                  ELSE binaryData.fileName)

(* The length of the buffer of item idx *)
BufferLength(idx) == inputBinary[idx + 1].map[AddPropertyName].size

(* The iteration of item idx has issued its first request or has ended *)
Started(idx) == idx < i \/ (idx = i /\ pc # "loop")

PutsOf(idx) == SelectSeq(requests, LAMBDA r : r.item = idx /\ r.method = "PUT")

SessionsOf(idx) ==
    SelectSeq(requests, LAMBDA r :
        /\ r.item = idx
        /\ r.method = "POST"
        /\ r.path = << "/messages/", "messageId", ToString(idx),
                       "/attachments/createUploadSession" >>)

InlinePostsOf(idx) ==
    SelectSeq(requests, LAMBDA r :
        /\ r.item = idx
        /\ r.method = "POST"
        /\ r.path = << "/messages/", "messageId", ToString(idx), "/attachments" >>)

(* ceil(n / d) *)
CeilDiv(n, d) == (n + d - 1) \div d

(* The upload of item idx ran to its end without a failed PUT *)
UploadCompleted(idx) ==
    /\ idx < i
    /\ Len(SessionsOf(idx)) = 1
    /\ RecordsOf(idx) = constructExecutionMetaData(returnJsonArray(SuccessJson), idx)

(* C3: when the large-file upload of a buffer of length L has run to its   *)
(* end with no failed PUT, the number of PUT calls is ceil(L/chunkSize);    *)
(* the first content-range starts at 0; each later chunk starts one byte    *)
(* after the inclusive end of the chunk before it; every chunk but the last *)
(* has chunkSize bytes; the last content-range ends at L-1; every           *)
(* content-range declares total L; each Content-Length is end-start+1; and  *)
(* the bodies, in call order, are the consecutive parts of the buffer from  *)
(* byte 0 to byte L-1.                                                      *)
C3_ChunkArithmetic ==
    Op = << "messageAttachment", "add" >>
    => \A idx \in ItemIndexes :
          UploadCompleted(idx)
          => LET puts == PutsOf(idx)
                 n == Len(puts)
                 L == BufferLength(idx)
             IN  /\ L > Threshold
                 /\ n = CeilDiv(L, chunkSize)
                 /\ \A k \in 1..n : puts[k].ok
                 /\ puts[1].headers.ContentRange.start = 0
                 /\ \A k \in 2..n :
                       puts[k].headers.ContentRange.start
                          = puts[k - 1].headers.ContentRange.end + 1
                 /\ \A k \in 1..(n - 1) : puts[k].body.length = chunkSize
                 /\ puts[n].headers.ContentRange.end = L - 1
                 /\ \A k \in 1..n :
                       LET range == puts[k].headers.ContentRange IN
                       /\ range.unit = "bytes"
                       /\ range.total = L
                       /\ puts[k].headers.ContentLength = range.end - range.start + 1
                       /\ puts[k].body.length = puts[k].headers.ContentLength
                       /\ puts[k].body.byteOffset = range.start
                 /\ puts[1].body.byteOffset = 0
                 /\ \A k \in 2..n :
                       puts[k].body.byteOffset
                          = puts[k - 1].body.byteOffset + puts[k - 1].body.length
                 /\ puts[n].body.byteOffset + puts[n].body.length = L

(* The upload of a buffer of two chunks and a part has run to its end in   *)
(* three PUT calls, the last one shorter than chunkSize.                    *)
C3_Witness ==
    /\ Op = << "messageAttachment", "add" >>
    /\ \E idx \in ItemIndexes :
          /\ UploadCompleted(idx)
          /\ BufferLength(idx) = 2 * chunkSize + 1000000
          /\ Len(PutsOf(idx)) = 3
          /\ PutsOf(idx)[3].body.length = 1000000

(* C4: the transfer path is chosen by a strict greater-than test: an item  *)
(* that passes validation with a buffer of at most 3,000,000 bytes issues   *)
(* exactly one POST to the attachments endpoint of its message, and no      *)
(* createUploadSession and no PUT; one with a buffer of 3,000,001 bytes or  *)
(* more issues exactly one createUploadSession POST and never the POST to   *)
(* the attachments endpoint.                                                *)
C4_PathByStrictThreshold ==
    Op = << "messageAttachment", "add" >>
    => \A idx \in ItemIndexes :
          IF ~AddValidated(idx)
          THEN CallsOf(idx) = << >>
          ELSE IF BufferLength(idx) <= Threshold
          THEN /\ Len(InlinePostsOf(idx)) = (IF Started(idx) THEN 1 ELSE 0)
               /\ CallsOf(idx) = InlinePostsOf(idx)
               /\ SessionsOf(idx) = << >>
               /\ PutsOf(idx) = << >>
          ELSE /\ BufferLength(idx) >= Threshold + 1
               /\ Len(SessionsOf(idx)) = (IF Started(idx) THEN 1 ELSE 0)
               /\ InlinePostsOf(idx) = << >>
               /\ Len(CallsOf(idx)) = Len(SessionsOf(idx)) + Len(PutsOf(idx))

(* Buffers of 0, of exactly 3,000,000 and of 3,000,001 bytes have each     *)
(* been handled, in one batch or another: here the one of 3,000,000 bytes   *)
(* followed by the one of 3,000,001 bytes.                                  *)
C4_Witness ==
    /\ Op = << "messageAttachment", "add" >>
    /\ length >= 2
    /\ i >= 2
    /\ AddValidated(0) /\ BufferLength(0) = Threshold
    /\ AddValidated(1) /\ BufferLength(1) = Threshold + 1
    /\ Len(InlinePostsOf(0)) = 1
    /\ Len(SessionsOf(1)) = 1

(* C6: the PUT calls of an item are issued in strictly increasing offset   *)
(* order, each after the one before it resolved; a PUT that failed is the   *)
(* last PUT of its item, no offset is sent twice, and the failure reaches   *)
(* the per-item handling: under continue-on-fail the item yields one error  *)
(* record and the loop moves on, otherwise execute rejects with the error   *)
(* of the PUT.                                                              *)
C6_SequentialNoRetry ==
    Op = << "messageAttachment", "add" >>
    => \A idx \in ItemIndexes :
          LET puts == PutsOf(idx)
              n == Len(puts)
          IN  /\ \A k \in 1..(n - 1) :
                    /\ puts[k].ok
                    /\ puts[k].headers.ContentRange.start
                          < puts[k + 1].headers.ContentRange.start
              /\ \A j, k \in 1..n :
                    j # k => puts[j].headers.ContentRange # puts[k].headers.ContentRange
              /\ (n > 0 => n <= CeilDiv(BufferLength(idx), chunkSize))
              /\ (n > 0 /\ ~puts[n].ok)
                 => IF continueOnFail
                    THEN /\ idx < i
                         /\ status # "thrown"
                         /\ RecordsOf(idx) =
                               constructExecutionMetaData(
                                   returnJsonArray(ErrorJson(ApiError.message)), idx)
                    ELSE /\ status = "thrown"
                         /\ thrown = ApiError
                         /\ i = idx
                         /\ RecordsOf(idx) = << >>
                         /\ requests[Len(requests)] = puts[n]

(* Under continue-on-fail the second of three PUT calls of the first item  *)
(* failed, and the second item was then handled.                            *)
C6_Witness ==
    /\ Op = << "messageAttachment", "add" >>
    /\ continueOnFail
    /\ length >= 2
    /\ i >= 2
    /\ AddValidated(0)
    /\ BufferLength(0) = 2 * chunkSize + 1000000
    /\ Len(PutsOf(0)) = 2
    /\ PutsOf(0)[1].ok
    /\ ~PutsOf(0)[2].ok
    /\ CallsOf(1) # << >>

(* The createUploadSession request of item idx resolved without uploadUrl *)
SessionWithoutUrl(idx) ==
    /\ Len(SessionsOf(idx)) >= 1
    /\ SessionsOf(idx)[1].ok
    /\ SessionsOf(idx)[1].response.uploadUrl = NoString

(* C7: when the createUploadSession response of an item carries no         *)
(* uploadUrl, the item fails with 'Failed to get upload session': its       *)
(* session request is the only request of the item, no PUT is issued for    *)
(* it, under continue-on-fail the item yields exactly one record, the error *)
(* record with that message, and the loop moves on to the following items;  *)
(* otherwise execute rejects with that error.                               *)
C7_NoUploadUrl ==
    Op = << "messageAttachment", "add" >>
    => \A idx \in ItemIndexes :
          SessionWithoutUrl(idx)
          => /\ Len(SessionsOf(idx)) = 1
             /\ PutsOf(idx) = << >>
             /\ Len(CallsOf(idx)) = 1
             /\ IF continueOnFail
                THEN /\ idx < i
                     /\ status # "thrown"
                     /\ RecordsOf(idx) =
                           constructExecutionMetaData(
                               returnJsonArray(
                                   ErrorJson(<< "Failed to get upload session" >>)), idx)
                     /\ (status = "returned" => i = length)
                ELSE /\ status = "thrown"
                     /\ thrown = UploadSessionError
                     /\ i = idx

(* Under continue-on-fail the session of the first item came back without  *)
(* uploadUrl and the second item was uploaded after it.                     *)
C7_Witness ==
    /\ Op = << "messageAttachment", "add" >>
    /\ continueOnFail
    /\ length >= 2
    /\ SessionWithoutUrl(0)
    /\ UploadCompleted(1)
    /\ status = "returned"
    /\ Len(output.data) = 2

----------------------------------------------------------------------------
(* Abort of the batch *)

(* The errors a handler raises itself *)
RaisedErrors ==
    { ApiError, HelperError, NoBinaryError, NoFileNameError, UploadSessionError }
    \cup { NoPropertyError(n) : n \in BinaryPropertyNames }

(* C5: with continue-on-fail disabled, the first failure aborts the batch:  *)
(* a failed request is the last request ever issued, it belongs to the item  *)
(* the loop stands on, and execute has rejected with the error of that       *)
(* request as it was raised; an item of messageAttachment add is passed only *)
(* if it met the checks; once execute has rejected it has returned no output *)
(* sequence, no request and no output record belongs to an item after the    *)
(* failed one, no error record was produced, and the items after the failed  *)
(* one are as they arrived.                                                  *)
C5_FirstFailureAborts ==
    ~continueOnFail
    => /\ \A j \in 1..Len(requests) :
             ~requests[j].ok
             => /\ j = Len(requests)
                /\ status = "thrown"
                /\ thrown = ApiError
                /\ requests[j].item = i
       /\ \A k \in 1..Len(returnData) : ~IsError(returnData[k].json)
       /\ \A k \in 1..Len(items) : ~IsError(items[k].json)
       /\ (Op = << "messageAttachment", "add" >>
           => \A idx \in ItemIndexes : idx < i => AddValidated(idx))
       /\ status = "thrown"
          => /\ thrown \in RaisedErrors
             /\ output = [kind |-> "none", data |-> << >>]
             /\ pc = "done"
             /\ i < length
             /\ \A j \in 1..Len(requests) : requests[j].item <= i
             /\ \A k \in 1..Len(returnData) : returnData[k].pairedItem.item <= i
             /\ \A idx \in ItemIndexes :
                   idx > i => items[idx + 1] = [json |-> InputJson(idx),
                                               binary |-> InputRef(idx)]

(* With continue-on-fail disabled, the request of the first of two items   *)
(* failed and execute rejected.                                             *)
C5_Witness ==
    /\ ~continueOnFail
    /\ status = "thrown"
    /\ length = 2
    /\ i = 0
    /\ requests # << >>
    /\ ~requests[Len(requests)].ok
    /\ thrown = ApiError

----------------------------------------------------------------------------
(* The query of the get and list operations *)

Restrict(obj, keys) == [k \in (DOMAIN obj) \cap keys |-> obj[k]]

(* The $select and $filter that the handler of the operation builds from   *)
(* the parameters of item idx alone, starting from an empty object.         *)
OwnQuery(idx) ==
    LET additionalFields == params[idx + 1].additionalFields IN
    IF Op = << "messageAttachment", "get" >>
    THEN SelectWithDefault(EmptyObj, additionalFields)
    ELSE IF Op = << "messageAttachment", "getAll" >>
    THEN FilterOnly(SelectWithDefault(EmptyObj, additionalFields), additionalFields)
    ELSE SelectAndFilter(EmptyObj, additionalFields)

(* The request hands its query to the query-string argument of the call *)
SendsQuery(r) ==
    /\ r.fn \in {"microsoftApiRequest", "microsoftApiRequestAllItems"}
    /\ ~( /\ Op \in { << "folder", "getChildren" >>, << "folderMessage", "getAll" >> }
          /\ r.fn = "microsoftApiRequestAllItems" )

(* C10 as stated: in every get and list operation the $select and $filter  *)
(* sent with the request of item i are those item i's own parameters give,  *)
(* whatever the parameters of the earlier items; an item that sets no field  *)
(* projection and no filter sends none.                                      *)
C10_QueryFromOwnParameters ==
    Op \in QueryOps
    => \A j \in 1..Len(requests) :
          SendsQuery(requests[j])
          => Restrict(requests[j].qs, {"$select", "$filter"})
                = OwnQuery(requests[j].item)

----------------------------------------------------------------------------
(* The list operations *)

(* The list calls issued for item idx: the pagination helper or the direct *)
(* request, not the attachment downloads that may follow.                  *)
ListCallsOf(idx) ==
    SelectSeq(requests, LAMBDA r :
        /\ r.item = idx
        /\ r.fn \in {"microsoftApiRequest", "microsoftApiRequestAllItems"})

(* The iteration of item idx has issued its list call *)
ListCallIssued(idx) == idx < i \/ (idx = i /\ (pc # "loop" \/ status = "thrown"))

(* C11 as stated: in every list operation the returnAll flag of item i     *)
(* selects the request of item i: with returnAll exactly one call to the    *)
(* pagination helper, no direct request, and no $top in what is handed to   *)
(* the helper; without returnAll exactly one direct request whose $top is   *)
(* the limit of item i, and no call to the helper; for every mix of         *)
(* returnAll values in the batch.                                           *)
C11_ReturnAllSelectsRequest ==
    Op \in ListOps
    => \A idx \in ItemIndexes :
          LET calls == ListCallsOf(idx) IN
          /\ Len(calls) = (IF ListCallIssued(idx) THEN 1 ELSE 0)
          /\ \A k \in 1..Len(calls) :
                IF params[idx + 1].returnAll
                THEN /\ calls[k].fn = "microsoftApiRequestAllItems"
                     /\ ~Has(calls[k].qs, "$top")
                     /\ ~Has(calls[k].body, "$top")
                ELSE /\ calls[k].fn = "microsoftApiRequest"
                     /\ Has(calls[k].qs, "$top")
                     /\ calls[k].qs["$top"] = params[idx + 1].limit

----------------------------------------------------------------------------
(* The parameters of messageAttachment add *)

(* The binary property name resolved for item idx *)
OwnPropertyName(idx) == params[idx + 1].binaryPropertyName

(* The number of bytes a request of messageAttachment add announces or    *)
(* carries in full                                                         *)
AnnouncedSize(r) ==
    IF r.method = "PUT"
    THEN r.headers.ContentRange.total
    ELSE IF Has(r.body, "AttachmentItem")
    THEN r.body.AttachmentItem.size
    ELSE r.body.contentBytes.length

(* C12 as stated, for messageAttachment add: the binary property that is   *)
(* checked and uploaded for item i is the one whose name is resolved for    *)
(* item i, also when the items of the batch resolve different names: every  *)
(* request of item i transfers the buffer of that property, and an item     *)
(* that has binary data and that property, and a file name for it, is not   *)
(* turned down for lacking a property.                                      *)
C12_OwnBinaryProperty ==
    Op = << "messageAttachment", "add" >>
    => \A idx \in ItemIndexes :
          LET own == OwnPropertyName(idx)
              before == inputBinary[idx + 1].map
          IN  /\ \A k \in 1..Len(CallsOf(idx)) :
                    /\ Has(before, own)
                    /\ AnnouncedSize(CallsOf(idx)[k]) = before[own].size
              /\ (inputBinary[idx + 1].defined /\ Has(before, own))
                 => \A k \in 1..Len(RecordsOf(idx)) :
                       RecordsOf(idx)[k].json # ErrorJson(NoPropertyError(AddPropertyName).message)

----------------------------------------------------------------------------
(* Order of the items *)

IsPrefix(s, t) == Len(s) <= Len(t) /\ SubSeq(t, 1, Len(s)) = s

(* The origin indices of the records of the accumulator never decrease *)
OriginsNonDecreasing(records) ==
    \A k \in 1..(Len(records) - 1) :
        records[k].pairedItem.item <= records[k + 1].pairedItem.item

(* The item indices of the calls never decrease *)
CallsInItemOrder(calls) ==
    \A k \in 1..(Len(calls) - 1) : calls[k].item <= calls[k + 1].item

(* C13: the items are handled one at a time in increasing index order:     *)
(* every step of execute issues at most one call, which it awaits, for the  *)
(* item the loop stands on; the loop index never decreases, so no call of   *)
(* item i follows a call of item i+1; the accumulator is only appended to,  *)
(* what is appended carries the index of the item the loop stands on, and   *)
(* the origin indices of the accumulator are non-decreasing.                *)
C13_ItemsInOrder ==
    [][ /\ i' \in {i, i + 1}
        /\ \/ requests' = requests
           \/ /\ Len(requests') = Len(requests) + 1
              /\ IsPrefix(requests, requests')
              /\ requests'[Len(requests')].item = i
        /\ CallsInItemOrder(requests')
        /\ IsPrefix(returnData, returnData')
        /\ \A k \in (Len(returnData) + 1)..Len(returnData') :
              returnData'[k].pairedItem.item = i
        /\ OriginsNonDecreasing(returnData')
      ]_vars

(* A list operation has appended two records for the first item and then   *)
(* two for the second, each after its own call.                             *)
C13_Witness ==
    /\ Op \in ListOps
    /\ i = 2
    /\ Len(requests) >= 2
    /\ requests[1].item = 0
    /\ requests[Len(requests)].item = 1
    /\ Len(RecordsOf(0)) = 2
    /\ Len(RecordsOf(1)) = 2
    /\ returnData = RecordsOf(0) \o RecordsOf(1)

----------------------------------------------------------------------------
(* message getAll with attachment download *)

HasPrefix(idx) ==
    Has(params[idx + 1].additionalFields, "dataPropertyAttachmentsPrefixName")

DownloadsOf(idx) ==
    SelectSeq(requests, LAMBDA r : r.item = idx /\ r.fn = "downloadAttachments")

(* The records of item idx are one error record, or the records of its own *)
(* answer in the order of the answer, marked by the download when the item  *)
(* asks for it.                                                             *)
OwnListRecords(idx) ==
    LET records == RecordsOf(idx) IN
    \/ /\ Len(records) = 1
       /\ IsError(records[1].json)
    \/ \A k \in 1..Len(records) :
          /\ records[k].json.id = << "record", ToString(idx), ToString(k) >>
          /\ Has(records[k].json, "binaryPrefix") <=> HasPrefix(idx)

(* C14: message getAll with attachment download handles all the items and  *)
(* then returns one batch: when execute returns, every input item has had   *)
(* its list call, and its attachment download when it asks for one and the  *)
(* list call succeeded; the batch returned is the accumulator, and it holds *)
(* the records of all the N items in index order.                           *)
C14_BulkReturn ==
    ( /\ Op = << "message", "getAll" >>
      /\ status = "returned"
      /\ \E idx \in ItemIndexes : HasPrefix(idx) )
    => /\ i = length
       /\ output = [kind |-> "returnData", data |-> returnData]
       /\ OriginsNonDecreasing(output.data)
       /\ \A idx \in ItemIndexes :
             /\ Len(ListCallsOf(idx)) = 1
             /\ Len(DownloadsOf(idx))
                   = (IF HasPrefix(idx) /\ ListCallsOf(idx)[1].ok THEN 1 ELSE 0)
             /\ OwnListRecords(idx)
             /\ (ListCallsOf(idx)[1].ok /\ \A k \in 1..Len(DownloadsOf(idx)) : DownloadsOf(idx)[k].ok)
                => \A k \in 1..Len(RecordsOf(idx)) : ~IsError(RecordsOf(idx)[k].json)
       /\ \A k \in 1..Len(output.data) : output.data[k].pairedItem.item \in ItemIndexes

(* message getAll returned after the loop with the downloaded records of   *)
(* two items, two for each.                                                 *)
C14_Witness ==
    /\ Op = << "message", "getAll" >>
    /\ status = "returned"
    /\ length = 2
    /\ HasPrefix(0) /\ HasPrefix(1)
    /\ Len(output.data) = 4
    /\ \A k \in 1..4 : Has(output.data[k].json, "binaryPrefix")
    /\ Len(DownloadsOf(0)) = 1 /\ Len(DownloadsOf(1)) = 1

----------------------------------------------------------------------------
(* Validation in messageAttachment add *)

(* The validation error of an item that does not pass the checks, by the   *)
(* first check it fails                                                     *)
ValidationError(idx) ==
    IF ~inputBinary[idx + 1].defined
    THEN [name |-> "NodeOperationError", message |-> << "No binary data exists on item!" >>]
    ELSE IF ~Has(inputBinary[idx + 1].map, AddPropertyName)
    THEN [name |-> "NodeOperationError",
          message |-> << "Item has no binary property called \"", AddPropertyName, "\"" >>]
    ELSE [name |-> "NodeOperationError",
          message |-> << "File name is not set. It has either to be set via \"Additional Fields\" or has to be set on the binary property!" >>]

(* C15: in messageAttachment add an item that has no binary data, or lacks  *)
(* the binary property the handler names, or has no file name in the        *)
(* additional fields or on the binary property, fails before any request is *)
(* issued for it and is not tried again: no request ever belongs to it;     *)
(* with continue-on-fail it yields exactly one record, the error record of  *)
(* the check it failed, with its own origin index, and the loop moves on to *)
(* the next item; without, execute rejects with that error.                 *)
C15_ValidationBeforeRequests ==
    Op = << "messageAttachment", "add" >>
    => \A idx \in ItemIndexes :
          ~AddValidated(idx)
          => /\ CallsOf(idx) = << >>
             /\ RecordsOf(idx) # << >> => (continueOnFail /\ idx < i)
             /\ idx < i
                => /\ continueOnFail
                   /\ RecordsOf(idx) =
                         << [json |-> [kind |-> "object",
                                       error |-> ValidationError(idx).message],
                             pairedItem |-> [item |-> idx]] >>
             /\ (idx = i /\ status = "thrown")
                => /\ ~continueOnFail
                   /\ thrown = ValidationError(idx)

(* With continue-on-fail, the first item had no file name and the second   *)
(* no binary data; each gave its error record and execute returned.         *)
C15_Witness ==
    /\ Op = << "messageAttachment", "add" >>
    /\ continueOnFail
    /\ status = "returned"
    /\ length = 2
    /\ inputBinary[1].defined
    /\ Has(inputBinary[1].map, AddPropertyName)
    /\ ~AddValidated(0)
    /\ ~inputBinary[2].defined
    /\ Len(output.data) = 2
    /\ IsError(output.data[1].json) /\ output.data[1].pairedItem.item = 0
    /\ IsError(output.data[2].json) /\ output.data[2].pairedItem.item = 1
    /\ requests = << >>

----------------------------------------------------------------------------
(* messageAttachment download *)

AttachmentPath(idx) ==
    << "/messages/", "messageId", ToString(idx), "/attachments/", "attachmentId", ToString(idx) >>

IsMetadataRequest(r, idx) ==
    /\ r.method = "GET"
    /\ r.path = AttachmentPath(idx)
    /\ r.qs = ("$select" :> "id,name,contentType")

IsValueRequest(r, idx) ==
    /\ r.method = "GET"
    /\ r.path = AttachmentPath(idx) \o << "/$value" >>

(* C16: messageAttachment download issues for an item first the metadata   *)
(* request, selecting id,name,contentType, then the raw $value request, and *)
(* nothing else: the $value request is issued only after the metadata       *)
(* request succeeded, and always then; the item is replaced in the items    *)
(* sequence only after both requests succeeded; the file name and the MIME  *)
(* type of the new binary field are those of the metadata response.         *)
C16_MetadataThenValue ==
    Op = << "messageAttachment", "download" >>
    => \A idx \in ItemIndexes :
          LET calls == CallsOf(idx)
              item == items[idx + 1]
          IN  /\ Len(calls) <= 2
              /\ Len(calls) >= 1 => IsMetadataRequest(calls[1], idx)
              /\ Len(calls) = 2 => (calls[1].ok /\ IsValueRequest(calls[2], idx))
              /\ idx < i => (Len(calls) = IF calls[1].ok THEN 2 ELSE 1)
              /\ item.binary # InputRef(idx)
                 => (Len(calls) = 2 /\ calls[1].ok /\ calls[2].ok)
              /\ SucceededInPlace(idx)
                 => LET field == BinaryOf(item)[params[idx + 1].binaryPropertyName] IN
                    /\ Len(calls) = 2 /\ calls[1].ok /\ calls[2].ok
                    /\ field.fileName = calls[1].response.name
                    /\ field.mimeType = calls[1].response.contentType

(* With continue-on-fail the metadata request of the first item failed and *)
(* the second item was downloaded under the name its metadata gave.         *)
C16_Witness ==
    /\ Op = << "messageAttachment", "download" >>
    /\ continueOnFail
    /\ i = 2
    /\ Len(CallsOf(0)) = 1
    /\ ~CallsOf(0)[1].ok
    /\ SucceededInPlace(1)
    /\ Len(CallsOf(1)) = 2
    /\ BinaryOf(items[2])[params[2].binaryPropertyName].fileName = << "report.pdf" >>

----------------------------------------------------------------------------
(* The arguments of the pagination helper *)

(* fetchAll(valueKey, method, path, body, query): the argument in fourth   *)
(* position is the body, the one in fifth position the query.              *)
HelperBody(r) == r.body

HelperQuery(r) == r.qs

(* C17 as stated: in every list operation run with returnAll, the $select  *)
(* and $filter of item i are handed to the pagination helper in its query   *)
(* argument and never in its body argument.                                 *)
C17_ConstraintsInQueryArgument ==
    Op \in ListOps
    => \A j \in 1..Len(requests) :
          LET r == requests[j]
              additionalFields == params[r.item + 1].additionalFields
          IN  r.fn = "microsoftApiRequestAllItems"
              => /\ ~Has(HelperBody(r), "$select")
                 /\ ~Has(HelperBody(r), "$filter")
                 /\ Has(additionalFields, "fields")
                    => /\ Has(HelperQuery(r), "$select")
                       /\ HelperQuery(r)["$select"] = additionalFields["fields"]
                 /\ Has(additionalFields, "filter")
                    => /\ Has(HelperQuery(r), "$filter")
                       /\ HelperQuery(r)["$filter"] = additionalFields["filter"]

----------------------------------------------------------------------------
(* draft / message get with attachment download *)

(* C18: in draft/message get, an item that sets the attachment-download    *)
(* prefix ends execute as soon as its handling succeeds: execute returns    *)
(* the accumulator with the loop still on that item, whose records, those   *)
(* of the download, come last; no request and no record belongs to a later  *)
(* item; every earlier item that sets the prefix failed and left its one    *)
(* error record; when execute returns after the last item, or no item sets  *)
(* the prefix, every one of the N items has had its request and has left    *)
(* one record.                                                              *)
C18_ReturnsAfterFirstSuccess ==
    (operation = "get" /\ resource \in {"draft", "message"})
    => /\ \A idx \in ItemIndexes :
             /\ (HasPrefix(idx) /\ idx < i)
                => /\ continueOnFail
                   /\ Len(RecordsOf(idx)) = 1
                   /\ IsError(RecordsOf(idx)[1].json)
             /\ idx > i => (CallsOf(idx) = << >> /\ RecordsOf(idx) = << >>)
       /\ status = "returned"
          => /\ output = [kind |-> "returnData", data |-> returnData]
             /\ OriginsNonDecreasing(output.data)
             /\ IF i < length
                THEN /\ HasPrefix(i)
                     /\ Len(CallsOf(i)) = 2
                     /\ CallsOf(i)[1].ok /\ CallsOf(i)[2].ok
                     /\ CallsOf(i)[2].fn = "downloadAttachments"
                     /\ RecordsOf(i) # << >>
                     /\ \A k \in 1..Len(RecordsOf(i)) :
                           /\ ~IsError(RecordsOf(i)[k].json)
                           /\ Has(RecordsOf(i)[k].json, "binaryPrefix")
                     /\ output.data[Len(output.data)].pairedItem.item = i
                ELSE \A idx \in ItemIndexes :
                        /\ Len(CallsOf(idx)) >= 1
                        /\ Len(RecordsOf(idx)) = 1
       /\ (status = "returned" /\ \A idx \in ItemIndexes : ~HasPrefix(idx))
          => /\ i = length
             /\ \A idx \in ItemIndexes : Len(CallsOf(idx)) = 1

(* message get returned after the first of two items, which set the prefix; *)
(* nothing was requested for the second.                                    *)
C18_Witness ==
    /\ Op = << "message", "get" >>
    /\ status = "returned"
    /\ length = 2
    /\ i = 0
    /\ HasPrefix(0)
    /\ Len(output.data) = 1
    /\ CallsOf(1) = << >>

----------------------------------------------------------------------------
(* message reply *)

(* The attachments item idx asks to add to its reply, in list order *)
ReplyAttachments(idx) ==
    IF Has(params[idx + 1].additionalFields, "attachments")
    THEN binaryToAttachments(params[idx + 1].additionalFields["attachments"])
    ELSE << >>

ReplyPath(idx) == << "/messages/" >> \o ResponseObject(idx).id

(* C19: the requests of one item of message reply follow a fixed order:    *)
(* first createReply or createReplyAll on the message of the item, then one *)
(* POST per attachment, in list order, to the attachments of the reply that *)
(* was created, then, only when send is enabled, the send request of that   *)
(* reply; each request is issued only after the one before it succeeded, so *)
(* after a failure nothing more is issued for the item, and a record other  *)
(* than an error record is appended for the item only after all of its      *)
(* requests succeeded.                                                      *)
C19_ReplySequence ==
    Op = << "message", "reply" >>
    => \A idx \in ItemIndexes :
          LET calls == CallsOf(idx)
              data == ReplyAttachments(idx)
              send == params[idx + 1].send
              all == 1 + Len(data) + (IF send THEN 1 ELSE 0)
          IN  /\ Len(calls) <= all
              /\ \A k \in 1..Len(calls) :
                    /\ calls[k].method = "POST"
                    /\ k > 1 => calls[k - 1].ok
                    /\ k = 1
                       => calls[k].path =
                             << "/messages/", "messageId", ToString(idx),
                                IF params[idx + 1].replyType = "replyAll"
                                THEN "/createReplyAll" ELSE "/createReply" >>
                    /\ (1 < k /\ k <= 1 + Len(data))
                       => /\ calls[k].path = ReplyPath(idx) \o << "/attachments" >>
                          /\ calls[k].body = data[k - 1]
                    /\ k > 1 + Len(data)
                       => /\ send
                          /\ calls[k].path = ReplyPath(idx) \o << "/send" >>
              /\ idx < i
                 => /\ Len(RecordsOf(idx)) = 1
                    /\ ~IsError(RecordsOf(idx)[1].json)
                       => /\ Len(calls) = all
                          /\ \A k \in 1..Len(calls) : calls[k].ok
                          /\ RecordsOf(idx)[1].json = ResponseObject(idx)
              /\ idx >= i => RecordsOf(idx) = << >>

(* A reply with two attachments and send enabled went through its four     *)
(* requests and left its record.                                            *)
C19_Witness ==
    /\ Op = << "message", "reply" >>
    /\ i >= 1
    /\ params[1].send
    /\ Len(ReplyAttachments(0)) = 2
    /\ Len(CallsOf(0)) = 4
    /\ CallsOf(0)[4].ok
    /\ RecordsOf(0) # << >>
    /\ ~IsError(RecordsOf(0)[1].json)

====
